---- MODULE Spec2Model ----
(***************************************************************************)
(* A model of lynx (colin4683/lynx): the hub's ServiceCache, alert engine  *)
(* and ingestion service, and the agent's collector queue, transport loop  *)
(* and command relay.  Each component has its own next-state relation and  *)
(* specification; Spec composes them all.                                  *)
(***************************************************************************)
EXTENDS Integers, Sequences, FiniteSets, TLC

VARIABLES
    \* ---- lynx-core/src/cache.rs: one Cache instance and its snapshot file
    services,            \* Cache.services: name -> SystemService (or NoService)
    config_changes,      \* Cache.config_changes: Vec<ConfigChange>
    logs,                \* Cache.logs: Vec<LogEntry>
    max_logs,            \* Cache.max_logs
    max_config_changes,  \* Cache.max_config_changes
    file,                \* the bytes at the snapshot path, or NoFile
    log_calls,           \* number of record_log calls on this instance
    cfg_calls,           \* number of record_config_change calls on this instance
    loaded,              \* a load_from_file has replaced the rings of this instance
    fileSrc,             \* the cache state the bytes in file were written from
    cache_ops,           \* number of Cache operations performed so far
    \* ---- lynx-core/src/notify/rules.rs: one parse and evaluation of a rule
    expression,          \* the rule's expression (segments split at AND/OR)
    metrics,             \* the MetricsRequest registered in the MetricRegistry
    conditions,          \* Ok(Vec<Condition>) / Err of parse_expression
    eval_result,         \* Ok(bool) / Err of evaluate_rule
    eval_pc,             \* "input", "evaluate", "done"
    \* ---- lynx-core/src/notify/processor.rs: NotificationProcessor::process calls
    now,                 \* the store's clock NOW(), in minutes
    alert_history,       \* rows of alert_history: [system, alert, date]
    registry,            \* NotificationProcessor.registry (shared by all calls)
    proc_pc,             \* per call slot: where the call is in process()
    proc_system,         \* per call slot: the system_id argument
    proc_rule,           \* per call slot: index of the rule of the loop
    proc_call,           \* per call slot: the number of this invocation
    proc_rules,          \* per call slot: the rule ids load_rules returned
    proc_metrics,        \* per call slot: the metrics argument of the call
    calls,               \* process invocations started so far
    sent,                \* dispatches made: [system, alert, date, call, urls]
    \* ---- lynx-core/src/notify/services.rs, processor.rs: notifiers of fired rules
    ntf_pc,              \* "idle", or "dispatch" inside the for url in notifier_urls loop
    ntf_urls,            \* notifier_urls of the fired rule
    ntf_i,               \* index of the URL the loop is at
    ntf_services,        \* NotificationProcessor.services: [url, service] entries
    ntf_outcomes,        \* per URL visited for this rule: what happened
    ntf_rule,            \* fired rules whose dispatch loop has finished
    ntf_built,           \* per URL: notifier objects constructed for it so far
    \* ---- lynx-core/src/tls.rs: the certificate directory and the hub's TLS setup
    tls_dir,             \* certs_dir.exists()
    tls_files,           \* server.crt, server.key, ca.crt: absent, unreadable, or contents
    tls_result,          \* what build_tls_config returned, or NoResult before the call
    tls_handshakes,      \* clients that connected: [client, accepted]
    \* ---- lynx-agent/src/main.rs, lib/collectors.rs: collectors, queue, transport
    queue,               \* the mpsc channel from the collectors to main's loop
    pending,             \* per collector: the request its tx.send(..).await holds
    tick_due,            \* per collector: interval.tick() would return at once
    produced,            \* requests created by collectors so far
    transport_pc,        \* main's loop: "recv", "rpc", "reconnect", "failed", "closed"
    request,             \* the request taken by rx.recv(), until its RPC returns
    rpc_log,             \* per request id: outcomes of the RPCs made for it
    dequeued,            \* ids of the requests rx.recv() has returned
    session,             \* number of times client has been replaced by a reconnect
    \* ---- lynx-agent/src/lib/system_info.rs: collect_network_stats
    net_pc,              \* "off", "idle", "sleeping", "reported", "panicked"
    net_checks,          \* the binary was built with overflow checks
    net_first,           \* (net_in, net_out) of the first snapshot
    net_second,          \* (net_in2, net_out2) of the second snapshot
    net_stats,           \* the NetworkStats returned, or NoStats
    \* ---- lynx-agent/src/lib/system_info.rs, cache.rs: collect_systemctl_services
    unit_now,            \* Utc::now(), in minutes
    unit_state,          \* per unit: what systemctl reports for it
    memory_cache,        \* FastCache.memory_cache: per key the stored value, or NoEntry
    metadata_cache,      \* FastCache.metadata_cache: per key expires_at, or NoMeta
    unit_delta,          \* names of the services of the last SystemctlRequest
    unit_cause,          \* per unit: why the last collection reported it
    unit_seen,           \* units the last collection went through, {} once anything changed
    \* ---- lynx-core/src/services/monitor.rs: the hub's three entry points
    hub_pc,              \* per handler call: where the call is
    hub_request,         \* per handler call: [rpc, header, payload]
    hub_valid,           \* per handler call: result of the systems lookup
    hub_response,        \* per handler call: the status returned, or None
    hub_left,            \* per handler call: disks / services still to store
    hub_existing,        \* per handler call: id found by the services SELECT, or 0
    hub_rows,            \* per handler call: its INSERTs on metrics / disks that succeeded, failed
    hub_calls,           \* handler calls received so far
    metrics_table,       \* number of rows of the metrics table
    disks_table,         \* number of rows of the disks table
    systems_info,        \* per system id: hostname etc. set by UPDATE systems
    services_table,      \* rows of the services table: [id, system, svc]
    alert_spawned,       \* process_notification tasks spawned
    log_tasks,           \* cache.record_log tasks spawned and not yet run
    \* ---- lynx-agent/src/lib/websocket.rs: the command relay
    server_up,           \* the accept loop task is alive
    conn,                \* addr of the connection being served, 0 when none
    accepted,            \* connections accepted so far
    peers,               \* PeerMap: addrs with a sender
    outq,                \* the channel(64) of the connection being served
    child,               \* per subprocess id: "none", "requested", "running", "exited", "killed"
    owner,               \* per subprocess id: addr whose tx it sends to
    stream,              \* per subprocess id: its stream_output task
    permit,              \* per subprocess id: terminate_signal has a stored notification
    lines,               \* per subprocess id: stdout lines read so far
    RUNNING_PROCESSES,   \* ids registered in RUNNING_PROCESSES
    live,                \* per live task id: "none", "requested", "running", "stopped"
    live_owner,          \* per live task id: its addr
    live_permit,         \* per live task id: terminate_signal has a stored notification
    LIVE_METRICS,        \* addr -> live task id whose notifier is registered, or 0
    stop_queue,          \* spawned Stop tasks waiting for RUNNING_PROCESSES.lock()
    stop_task,           \* the Stop task holding the lock, or NoStop
    cleanups,            \* addrs whose disconnect cleanup task has not run yet
    relay_ops            \* steps the relay and its tasks have taken so far

cacheVars == <<services, config_changes, logs, max_logs, max_config_changes,
               file, log_calls, cfg_calls, loaded, fileSrc, cache_ops>>

evalVars == <<expression, metrics, conditions, eval_result, eval_pc>>

alertVars == <<now, alert_history, registry, proc_pc, proc_system, proc_rule,
               proc_call, proc_rules, proc_metrics, calls, sent>>

notifyVars == <<ntf_pc, ntf_urls, ntf_i, ntf_services, ntf_outcomes, ntf_rule,
                ntf_built>>

tlsVars == <<tls_dir, tls_files, tls_result, tls_handshakes>>

netVars == <<net_pc, net_checks, net_first, net_second, net_stats>>

unitVars == <<unit_now, unit_state, memory_cache, metadata_cache, unit_delta,
              unit_cause, unit_seen>>

agentVars == <<queue, pending, tick_due, produced, transport_pc, request, rpc_log,
               dequeued, session>>

hubVars == <<hub_pc, hub_request, hub_valid, hub_response, hub_left,
             hub_existing, hub_rows, hub_calls, metrics_table, disks_table, systems_info,
             services_table, alert_spawned, log_tasks>>

relayVars == <<server_up, conn, accepted, peers, outq, child, owner,
               stream, permit, lines, RUNNING_PROCESSES, live, live_owner, live_permit,
               LIVE_METRICS, stop_queue, stop_task, cleanups, relay_ops>>

vars == <<cacheVars, evalVars, alertVars, notifyVars, tlsVars, netVars, unitVars, agentVars,
          hubVars, relayVars>>

\* the variables of the other components, for each component's actions
othersOfCache == <<evalVars, alertVars, notifyVars, tlsVars, netVars, unitVars, agentVars, hubVars,
                   relayVars>>
othersOfEval == <<cacheVars, alertVars, notifyVars, tlsVars, netVars, unitVars, agentVars, hubVars,
                  relayVars>>
othersOfAlert == <<cacheVars, evalVars, notifyVars, tlsVars, netVars, unitVars, agentVars, hubVars,
                   relayVars>>
othersOfNotify == <<cacheVars, evalVars, alertVars, tlsVars, netVars, unitVars, agentVars, hubVars,
                    relayVars>>
othersOfTls == <<cacheVars, evalVars, alertVars, notifyVars, netVars, unitVars, agentVars, hubVars,
                 relayVars>>
othersOfAgent == <<cacheVars, evalVars, alertVars, notifyVars, tlsVars, netVars, unitVars, hubVars,
                   relayVars>>
othersOfRelay == <<cacheVars, evalVars, alertVars, notifyVars, tlsVars, netVars, unitVars,
                   agentVars, hubVars>>
\* the hub's handlers write to the hub's Cache (services, logs, log_calls)
othersOfHub == <<config_changes, max_logs, max_config_changes, file, cfg_calls,
                 loaded, fileSrc, cache_ops, evalVars, alertVars, notifyVars, tlsVars,
                 netVars, unitVars,
                 agentVars, relayVars>>
othersOfNet == <<cacheVars, evalVars, alertVars, notifyVars, tlsVars, unitVars, agentVars, hubVars,
                 relayVars>>
othersOfUnit == <<cacheVars, evalVars, alertVars, notifyVars, tlsVars, netVars,
                  agentVars, hubVars, relayVars>>

None == "None"

\* ------------------------------------------------------------------------
\* Bounds of the model
\* ------------------------------------------------------------------------
MaxLogsBound == 2        \* max_logs ranges over 0..MaxLogsBound
MaxCfgBound == 1         \* max_config_changes ranges over 0..MaxCfgBound
MaxCacheOps == 7         \* Cache operations in one behaviour
MaxSegments == 3         \* segments (clauses) of a rule expression
MaxNow == 30             \* the clock runs from 0 to MaxNow minutes
QueueCap == 1            \* capacity of the collectors' channel (1024 in main.rs, scaled)
MaxSamples == 3          \* requests the collectors create in one behaviour
MaxHubCalls == 2          \* requests the hub receives in one behaviour
MaxDisks == 1            \* disk_stats entries of a MetricsRequest
MaxConns == 2            \* connections the relay accepts in one behaviour
MaxProcs == 2            \* execute commands (subprocess ids) in one behaviour
MaxLive == 2             \* live commands (live task ids) in one behaviour
MaxLines == 1            \* stdout lines of one subprocess
MaxRelayOps == 10        \* steps of the relay and its tasks in one behaviour
MaxStops == 1            \* Stop tasks waiting for the registry lock
OutCap == 2              \* capacity of a connection's channel (64 in websocket.rs, scaled)
MaxCalls == 2            \* NotificationProcessor::process invocations in one behaviour
MaxUrls == 2             \* notifier URLs of one rule
MaxClock == 12           \* minutes the unit probe's clock runs
MaxFired == 2            \* fired rules whose notifiers are dispatched in one behaviour

\* ========================================================================
\* ServiceCache (lynx-core/src/cache.rs)
\* ========================================================================
ServiceNames == {"svc0", "svc1"}
NoService == [service_name |-> None]
NoFile == <<"NoFile">>

\* proto::monitor::SystemService values offered to upsert_service
SystemServices ==
    { [service_name |-> "svc0", description |-> "test", pid |-> 1,
       state |-> "running", cpu |-> "0%", memory |-> "0"],
      [service_name |-> "svc0", description |-> "test", pid |-> 2,
       state |-> "failed", cpu |-> "1%", memory |-> "8"],
      [service_name |-> "svc1", description |-> "test", pid |-> 3,
       state |-> "running", cpu |-> "0%", memory |-> "0"] }

\* From<&SystemService> for SerializableSystemService
ToSerializable_DropPid(s) ==
    [service_name |-> s.service_name, description |-> s.description, pid |-> 0,
     state |-> s.state, cpu |-> s.cpu, memory |-> s.memory]

ToSerializable(s) ==
    [service_name |-> s.service_name, description |-> s.description, pid |-> s.pid,
     state |-> s.state, cpu |-> s.cpu, memory |-> s.memory]

\* From<SerializableSystemService> for SystemService
FromSerializable(s) ==
    [service_name |-> s.service_name, description |-> s.description, pid |-> s.pid,
     state |-> s.state, cpu |-> s.cpu, memory |-> s.memory]

\* ---- bincode: a length-prefixed flat encoding of CacheSnapshot ----------
RECURSIVE Concat(_)
Concat(ss) == IF ss = <<>> THEN <<>> ELSE Head(ss) \o Concat(Tail(ss))

EncService(s) == <<s.service_name, s.description, s.pid, s.state, s.cpu, s.memory>>
EncOption(o) == IF o = None THEN <<0>> ELSE <<1, o>>
EncConfigChange(c) == <<c.key>> \o EncOption(c.old_value) \o <<c.new_value, c.ts>>
EncLogEntry(l) == <<l.level, l.message, l.ts>>
EncOne(kind, x) ==
    CASE kind = "service" -> EncService(x)
      [] kind = "config_change" -> EncConfigChange(x)
      [] OTHER -> EncLogEntry(x)
EncVec(v, kind) == <<Len(v)>> \o Concat([i \in 1..Len(v) |-> EncOne(kind, v[i])])

BincodeSerialize(snap) ==
    EncVec(snap.services, "service")
        \o EncVec(snap.config_changes, "config_change")
        \o EncVec(snap.logs, "log")

\* Decoders return [val, rest]
DecService(b) ==
    [val |-> [service_name |-> b[1], description |-> b[2], pid |-> b[3],
              state |-> b[4], cpu |-> b[5], memory |-> b[6]],
     rest |-> SubSeq(b, 7, Len(b))]
DecConfigChange(b) ==
    IF b[2] = 0
    THEN [val |-> [key |-> b[1], old_value |-> None, new_value |-> b[3], ts |-> b[4]],
          rest |-> SubSeq(b, 5, Len(b))]
    ELSE [val |-> [key |-> b[1], old_value |-> b[3], new_value |-> b[4], ts |-> b[5]],
          rest |-> SubSeq(b, 6, Len(b))]
DecLogEntry(b) ==
    [val |-> [level |-> b[1], message |-> b[2], ts |-> b[3]],
     rest |-> SubSeq(b, 4, Len(b))]

DecOne(kind, b) ==
    CASE kind = "service" -> DecService(b)
      [] kind = "config_change" -> DecConfigChange(b)
      [] OTHER -> DecLogEntry(b)

RECURSIVE DecItems(_, _, _, _)
DecItems(n, b, acc, kind) ==
    IF n = 0 THEN [val |-> acc, rest |-> b]
    ELSE LET d == DecOne(kind, b) IN DecItems(n - 1, d.rest, Append(acc, d.val), kind)
DecVec(b, kind) == DecItems(b[1], Tail(b), <<>>, kind)

BincodeDeserialize(bytes) ==
    LET s == DecVec(bytes, "service")
        c == DecVec(s.rest, "config_change")
        l == DecVec(c.rest, "log")
    IN [services |-> s.val, config_changes |-> c.val, logs |-> l.val]

\* ---- Cache ---------------------------------------------------------------
\* Vec::drain(0..overflow) after a push that exceeds max
DrainOverflow_DropNewest(v, max) ==
    IF Len(v) > max THEN SubSeq(v, 1, max) ELSE v

DrainOverflow(v, max) ==
    IF Len(v) > max THEN SubSeq(v, Len(v) - max + 1, Len(v)) ELSE v

\* Cache::list_services: the entries of the DashMap, in one of its iteration orders
Present == {n \in ServiceNames : services[n] # NoService}
Orders(S) == {o \in [1..Cardinality(S) -> S] : \A i, j \in 1..Cardinality(S) : i # j => o[i] # o[j]}
ListServices == {[i \in 1..Cardinality(Present) |-> services[o[i]]] : o \in Orders(Present)}

\* the abstract content of the cache
CacheState == [services |-> services, config_changes |-> config_changes, logs |-> logs]
EmptyServices == [n \in ServiceNames |-> NoService]
EmptyState == [services |-> EmptyServices, config_changes |-> <<>>, logs |-> <<>>]

UpsertAll_Replace(m, svcs) ==
    [n \in ServiceNames |->
        IF \E i \in 1..Len(svcs) : svcs[i].service_name = n
        THEN svcs[CHOOSE i \in 1..Len(svcs) : svcs[i].service_name = n]
        ELSE NoService]

\* DashMap::insert for every service of a sequence, in order
RECURSIVE UpsertAll(_, _)
UpsertAll(m, svcs) ==
    IF svcs = <<>> THEN m
    ELSE UpsertAll([m EXCEPT ![Head(svcs).service_name] = Head(svcs)], Tail(svcs))

\* the model's budget of Cache operations
CacheOp ==
    /\ cache_ops < MaxCacheOps
    /\ cache_ops' = cache_ops + 1

InitCache ==
    /\ services = EmptyServices
    /\ config_changes = <<>>
    /\ logs = <<>>
    /\ max_logs = MaxLogsBound
    /\ max_config_changes = MaxCfgBound
    /\ file = NoFile
    /\ fileSrc = EmptyState
    /\ log_calls = 0
    /\ cfg_calls = 0
    /\ loaded = FALSE
    /\ cache_ops = 0

\* Cache::new(l, c): a new instance (a restarted process, or another bound);
\* the snapshot file stays on disk
NewCache(l, c) ==
    /\ CacheOp
    /\ services' = EmptyServices
    /\ config_changes' = <<>>
    /\ logs' = <<>>
    /\ max_logs' = l
    /\ max_config_changes' = c
    /\ log_calls' = 0
    /\ cfg_calls' = 0
    /\ loaded' = FALSE
    /\ UNCHANGED <<file, fileSrc>>

upsert_service(svc) ==
    /\ CacheOp
    /\ services' = [services EXCEPT ![svc.service_name] = svc]
    /\ UNCHANGED <<config_changes, logs, max_logs, max_config_changes, file,
                   fileSrc, log_calls, cfg_calls, loaded>>

record_config_change(key, old_value, new_value) ==
    /\ CacheOp
    /\ config_changes' =
          DrainOverflow(Append(config_changes,
                               [key |-> key, old_value |-> old_value,
                                new_value |-> new_value, ts |-> cfg_calls]),
                        max_config_changes)
    /\ cfg_calls' = cfg_calls + 1
    /\ UNCHANGED <<services, logs, max_logs, max_config_changes, file, fileSrc,
                   log_calls, loaded>>

record_log(level, message) ==
    /\ CacheOp
    /\ logs' = DrainOverflow(Append(logs, [level |-> level, message |-> message,
                                           ts |-> log_calls]),
                             max_logs)
    /\ log_calls' = log_calls + 1
    /\ UNCHANGED <<services, config_changes, max_logs, max_config_changes, file,
                   fileSrc, cfg_calls, loaded>>

snapshot_to_file ==
    /\ CacheOp
    /\ \E listed \in ListServices :
          LET snap == [services |-> [i \in 1..Len(listed) |-> ToSerializable(listed[i])],
                       config_changes |-> config_changes,
                       logs |-> logs]
          IN file' = BincodeSerialize(snap)
    /\ fileSrc' = CacheState
    /\ UNCHANGED <<services, config_changes, logs, max_logs, max_config_changes,
                   log_calls, cfg_calls, loaded>>

load_from_file ==
    /\ CacheOp
    /\ IF file = NoFile
       THEN UNCHANGED <<services, config_changes, logs, loaded>>
       ELSE LET snap == BincodeDeserialize(file) IN
            /\ services' = UpsertAll(services,
                              [i \in 1..Len(snap.services) |->
                                   FromSerializable(snap.services[i])])
            /\ config_changes' = snap.config_changes
            /\ logs' = snap.logs
            /\ loaded' = TRUE
    /\ UNCHANGED <<max_logs, max_config_changes, file, fileSrc, log_calls, cfg_calls>>

NextCache ==
    \/ /\ \E l \in 0..MaxLogsBound, c \in 0..MaxCfgBound : NewCache(l, c)
       /\ UNCHANGED othersOfCache
    \/ /\ \E svc \in SystemServices : upsert_service(svc)
       /\ UNCHANGED othersOfCache
    \/ /\ \E old \in {None, "old"} : record_config_change("key", old, cfg_calls)
       /\ UNCHANGED othersOfCache
    \/ /\ record_log("info", log_calls)
       /\ UNCHANGED othersOfCache
    \/ /\ snapshot_to_file
       /\ UNCHANGED othersOfCache
    \/ /\ load_from_file
       /\ UNCHANGED othersOfCache


\* ------------------------------------------------------------------------
\* Properties of the ServiceCache
\* ------------------------------------------------------------------------
Min(a, b) == IF a < b THEN a ELSE b

\* the i-th (0-based) entry recorded by record_log on this instance
RecordedLog(i) == [level |-> "info", message |-> i, ts |-> i]

\* C3: after N record_log calls on a fresh Cache with max_logs = L, log_count()
\* is min(N, L) and the retained entries are the last min(N, L) recorded ones,
\* in insertion order.
C3_RingKeepsLastL ==
    ~loaded =>
        LET n == Min(log_calls, max_logs) IN
        /\ Len(logs) = n
        /\ logs = [k \in 1..n |-> RecordedLog(log_calls - n + k - 1)]

\* more calls than the ring holds: the oldest entries have been removed
C3_Witness ==
    /\ ~loaded
    /\ max_logs >= 1
    /\ log_calls >= max_logs + 2
    /\ logs # <<>>

\* C4: load_from_file into a fresh Cache yields the services (every field), the
\* config changes and the logs, in order, of the Cache snapshot_to_file wrote.
C4_SnapshotRoundTrip ==
    [][(~loaded /\ loaded' /\ CacheState = EmptyState) =>
          /\ services' = fileSrc.services
          /\ config_changes' = fileSrc.config_changes
          /\ logs' = fileSrc.logs
          /\ Cardinality({n \in ServiceNames : services'[n] # NoService})
                = Cardinality({n \in ServiceNames : fileSrc.services[n] # NoService})
          /\ Len(logs') = Len(fileSrc.logs)]_vars

\* a new instance that recorded nothing itself holds the snapshot's services and rings
C4_Witness ==
    /\ loaded
    /\ log_calls = 0
    /\ cfg_calls = 0
    /\ Present # {}
    /\ logs # <<>>
    /\ config_changes # <<>>
    /\ CacheState = fileSrc

\* C5: in every reachable state the rings are within their bounds.
C5_RingBounds ==
    /\ Len(logs) <= max_logs
    /\ Len(config_changes) <= max_config_changes

\* C20: load_from_file is additive for services and replacing for rings.  After
\* loading a snapshot into a non-empty Cache, every service that was in the
\* Cache and is not named in the snapshot is still present unchanged, every
\* service named in the snapshot has the snapshot's values, and both rings
\* equal the snapshot's rings.
C20_LoadAdditiveReplacing ==
    [][(~loaded /\ loaded' /\ CacheState # EmptyState) =>
          /\ \A n \in ServiceNames :
                /\ fileSrc.services[n] = NoService => services'[n] = services[n]
                /\ fileSrc.services[n] # NoService => services'[n] = fileSrc.services[n]
          /\ logs' = fileSrc.logs
          /\ config_changes' = fileSrc.config_changes]_vars

\* a Cache that held a service the snapshot does not name, and had recorded
\* more log entries than the snapshot holds, has loaded the snapshot
C20_Witness ==
    /\ loaded
    /\ \E n \in ServiceNames : services[n] # NoService /\ fileSrc.services[n] = NoService
    /\ \E n \in ServiceNames : services[n] # NoService /\ services[n] = fileSrc.services[n]
    /\ logs = fileSrc.logs
    /\ config_changes = fileSrc.config_changes
    /\ logs # <<>>
    /\ Len(logs) < Min(log_calls, max_logs)


\* ========================================================================
\* Rule parser and evaluator (lynx-core/src/notify/rules.rs, components.rs)
\* ========================================================================
\* A MetricsRequest, as far as the registry's components read it.  f64 values
\* are integers here; memory usage is used * 100 / total, exact for these.
\* disk_stats holds the usage of each disk mounted at "/"; these payloads
\* carry no disk.
Payloads ==
    [cpu_usage : {70, 85}, mem_used : {400, 950}, mem_total : {1000}, load_one : {1, 3},
     disk_stats : {<<>>}]
NoMetrics == [cpu_usage |-> 0, mem_used |-> 0, mem_total |-> 0, load_one |-> 0,
              disk_stats |-> <<>>]

\* The segments LOGICAL_RE.split yields.  "clause" segments match COMPONENT_RE
\* (groups: component, metric, operator text, value text); a "nomatch" segment
\* does not.  The value text is a number (Num) or not (NotANumber).
Num(n) == [numeric |-> TRUE, num |-> n]
NotANumber == [numeric |-> FALSE, num |-> 0]
Clause(c, m, o, v) == [kind |-> "clause", component |-> c, metric |-> m, operator |-> o, value |-> v]
NoMatch == [kind |-> "nomatch", component |-> "", metric |-> "", operator |-> "", value |-> NotANumber]
GoodSegments ==
    { Clause("cpu", "usage", ">", Num(80)),
      Clause("memory", "usage", "<", Num(90)),
      Clause("load", "one", "==", Num(3)),
      Clause("disk", "usage", ">", Num(90)) }
BadSegments ==
    { NoMatch,
      Clause("cpu", "usage", "=>", Num(80)),
      Clause("cpu", "usage", ">", NotANumber) }
Segments == GoodSegments \cup BadSegments
LogicalOperators == {"AND", "OR"}

\* an expression is [segments, operators]: n segments separated by n-1 logical
\* operators, in the order of the text

Err == [ok |-> FALSE]
Ok(v) == [ok |-> TRUE, val |-> v]

\* Operator::from_str
OperatorFromStr(str) ==
    IF str \in {">", "<", ">=", "<=", "==", "!="} THEN Ok(str) ELSE Err

\* next_logical of the condition parsed from segment i (1-based): the operator
\* found after that segment, operators[i], when there is one
NextLogical_Previous(operators, i) ==
    IF i > 1 THEN operators[i - 1] ELSE None

NextLogical(operators, i) ==
    IF i - 1 < Len(operators) THEN operators[i] ELSE None

\* RuleParser::parse_expression: the loop over segments, from segment i on
RECURSIVE ParseFrom(_, _, _)
ParseFrom(expr, i, acc) ==
    IF i > Len(expr.segments) THEN Ok(acc)
    ELSE LET seg == expr.segments[i] IN
         IF seg.kind # "clause" THEN ParseFrom(expr, i + 1, acc)
         ELSE IF ~OperatorFromStr(seg.operator).ok THEN Err
         ELSE IF ~seg.value.numeric THEN Err
         ELSE ParseFrom(expr, i + 1,
                 Append(acc, [component |-> seg.component,
                              metric |-> seg.metric,
                              operator |-> seg.operator,
                              value |-> seg.value.num,
                              next_logical |-> NextLogical(expr.operators, i)]))

parse_expression(expr) == ParseFrom(expr, 1, <<>>)

get_metric_UsageIsUsed(m, component, metric) ==
    CASE component = "cpu" /\ metric = "usage" -> Ok(m.cpu_usage)
      [] component = "memory" -> Ok(m.mem_used)
      [] component = "load" /\ metric = "one" -> Ok(m.load_one)
      [] OTHER -> Err

\* MetricComponent::get_metric of the component registered under a name; no
\* "disk" component is registered while no payload has carried a disk
get_metric(m, component, metric) ==
    CASE component = "cpu" /\ metric = "usage" -> Ok(m.cpu_usage)
      [] component = "memory" /\ metric = "used" -> Ok(m.mem_used)
      [] component = "memory" /\ metric = "total" -> Ok(m.mem_total)
      [] component = "memory" /\ metric = "usage" -> Ok((m.mem_used * 100) \div m.mem_total)
      [] component = "load" /\ metric = "one" -> Ok(m.load_one)
      [] component = "disk" /\ metric = "usage" /\ m.disk_stats # <<>> -> Ok(m.disk_stats[1])
      [] OTHER -> Err

\* RuleEvaluator::evaluate_condition
evaluate_condition(m, c) ==
    LET got == get_metric(m, c.component, c.metric) IN
    IF ~got.ok THEN Err
    ELSE Ok(CASE c.operator = ">" -> got.val > c.value
              [] c.operator = "<" -> got.val < c.value
              [] c.operator = ">=" -> got.val >= c.value
              [] c.operator = "<=" -> got.val <= c.value
              [] c.operator = "==" -> got.val = c.value
              [] OTHER -> got.val # c.value)

\* RuleEvaluator::evaluate_rule: the loop from condition i on, with the running result
RECURSIVE EvaluateFrom(_, _, _, _)
EvaluateFrom(m, conds, i, result) ==
    IF i > Len(conds) THEN Ok(result)
    ELSE LET cr == evaluate_condition(m, conds[i])
             nl == conds[i].next_logical
         IN
         IF ~cr.ok THEN Err
         ELSE CASE nl = "AND" /\ result /\ ~cr.val -> Ok(FALSE)
                [] nl = "OR" /\ ~result /\ cr.val -> Ok(TRUE)
                [] nl = "AND" -> EvaluateFrom(m, conds, i + 1, result /\ cr.val)
                [] nl = "OR" -> EvaluateFrom(m, conds, i + 1, result \/ cr.val)
                [] OTHER -> EvaluateFrom(m, conds, i + 1, cr.val)

evaluate_rule(m, conds) == EvaluateFrom(m, conds, 1, TRUE)

NoExpression == [segments |-> <<>>, operators |-> <<>>]

InitEval ==
    /\ expression = NoExpression
    /\ metrics = NoMetrics
    /\ conditions = Err
    /\ eval_result = Err
    /\ eval_pc = "input"

\* a metrics payload arrives and a rule row is read: the expression's first segment
EvalInput(seg, m) ==
    /\ eval_pc = "input"
    /\ expression = NoExpression
    /\ expression' = [segments |-> <<seg>>, operators |-> <<>>]
    /\ metrics' = m
    /\ UNCHANGED <<conditions, eval_result, eval_pc>>

\* ... followed by a logical operator and one more segment
ExtendExpression(op, seg) ==
    /\ eval_pc = "input"
    /\ expression # NoExpression
    /\ Len(expression.segments) < MaxSegments
    /\ expression' = [segments |-> Append(expression.segments, seg),
                      operators |-> Append(expression.operators, op)]
    /\ UNCHANGED <<metrics, conditions, eval_result, eval_pc>>

ParseRule ==
    /\ eval_pc = "input"
    /\ expression # NoExpression
    /\ conditions' = parse_expression(expression)
    /\ eval_pc' = IF parse_expression(expression).ok THEN "evaluate" ELSE "done"
    /\ UNCHANGED <<expression, metrics, eval_result>>

EvaluateRule ==
    /\ eval_pc = "evaluate"
    /\ eval_result' = evaluate_rule(metrics, conditions.val)
    /\ eval_pc' = "done"
    /\ UNCHANGED <<expression, metrics, conditions>>

NextEval ==
    \/ /\ \E seg \in Segments, m \in Payloads : EvalInput(seg, m)
       /\ UNCHANGED othersOfEval
    \/ /\ \E op \in LogicalOperators, seg \in Segments : ExtendExpression(op, seg)
       /\ UNCHANGED othersOfEval
    \/ /\ ParseRule
       /\ UNCHANGED othersOfEval
    \/ /\ EvaluateRule
       /\ UNCHANGED othersOfEval

\* ------------------------------------------------------------------------
\* Properties of the evaluator
\* ------------------------------------------------------------------------
\* the truth value of clause i on the registered metrics
ClauseValue(i) ==
    LET cr == evaluate_condition(metrics, conditions.val[i]) IN cr.ok /\ cr.val

\* r_1 = v(c1), r_i = r_(i-1) OP v(ci), OP the next_logical of clause i-1
RECURSIVE LeftFold(_)
LeftFold(i) ==
    IF i = 1 THEN ClauseValue(1)
    ELSE IF conditions.val[i - 1].next_logical = "AND"
         THEN LeftFold(i - 1) /\ ClauseValue(i)
         ELSE LeftFold(i - 1) \/ ClauseValue(i)

\* C2: evaluate_rule returns the left-to-right fold of the clauses' truth
\* values, combining clause i with the running result by the next_logical of
\* clause i-1.
C2_EvaluateIsLeftFold ==
    (eval_pc = "done" /\ conditions.ok /\ eval_result.ok /\ Len(conditions.val) >= 1)
        => eval_result.val = LeftFold(Len(conditions.val))

\* C29: if any condition of a rule names a component that is not in the
\* registry (disk, when the payload has no disk) or a metric the component
\* does not define, the evaluation of the rule ends with an error.
C29_UnknownComponentAborts ==
    (/\ eval_pc = "done"
     /\ conditions.ok
     /\ \E i \in 1..Len(conditions.val) :
            ~get_metric(metrics, conditions.val[i].component, conditions.val[i].metric).ok)
        => ~eval_result.ok

\* a segment that conforms to the grammar: component.metric, an operator of
\* Operator::from_str, a numeric value
WellFormed(seg) ==
    /\ seg.kind = "clause"
    /\ seg.operator \in {">", "<", ">=", "<=", "==", "!="}
    /\ seg.value.numeric

\* the condition a well-formed segment i of the expression stands for, with
\* the logical operator that follows it in the expression
ConditionOf(i) ==
    [component |-> expression.segments[i].component,
     metric |-> expression.segments[i].metric,
     operator |-> expression.segments[i].operator,
     value |-> expression.segments[i].value.num,
     next_logical |-> IF i <= Len(expression.operators)
                      THEN expression.operators[i] ELSE None]

\* the well-formed clauses of the expression from segment i on, in order
RECURSIVE WellFormedClauses(_)
WellFormedClauses(i) ==
    IF i > Len(expression.segments) THEN <<>>
    ELSE (IF WellFormed(expression.segments[i]) THEN <<ConditionOf(i)>> ELSE <<>>)
            \o WellFormedClauses(i + 1)

\* C17: when the expression contains a clause that does not conform to the
\* grammar, parse_expression skips only that clause and returns every
\* well-formed clause, in order, each with the logical operator that follows it.
C17_SkipsOnlyMalformed ==
    (eval_pc # "input"
        /\ \E i \in 1..Len(expression.segments) : ~WellFormed(expression.segments[i]))
        => conditions = Ok(WellFormedClauses(1))

\* the expression `cpu.usage > 80 AND memory.usage < 90`
RuleAB ==
    [segments |-> <<Clause("cpu", "usage", ">", Num(80)),
                    Clause("memory", "usage", "<", Num(90))>>,
     operators |-> <<"AND">>]

\* C18: for an expression of n well-formed clauses joined by n-1 logical
\* operators, parse_expression returns n conditions in expression order;
\* condition i < n has next_logical equal to the i-th logical operator and the
\* last condition has next_logical None.  `cpu.usage > 80 AND memory.usage < 90`
\* yields 2 conditions with next_logical AND, then None.
C18_ParsePreservesOperators ==
    (eval_pc # "input"
        /\ \A i \in 1..Len(expression.segments) : WellFormed(expression.segments[i]))
        => /\ conditions.ok
           /\ Len(conditions.val) = Len(expression.segments)
           /\ \A i \in 1..Len(expression.segments) :
                 /\ conditions.val[i].component = expression.segments[i].component
                 /\ conditions.val[i].metric = expression.segments[i].metric
                 /\ conditions.val[i].operator = expression.segments[i].operator
                 /\ conditions.val[i].value = expression.segments[i].value.num
                 /\ conditions.val[i].next_logical =
                       IF i < Len(expression.segments)
                       THEN expression.operators[i] ELSE None
           /\ expression = RuleAB =>
                 /\ Len(conditions.val) = 2
                 /\ conditions.val[1].next_logical = "AND"
                 /\ conditions.val[2].next_logical = None

\* `cpu.usage > 80 AND memory.usage < 90` has been parsed
C18_Witness ==
    /\ expression = RuleAB
    /\ eval_pc = "evaluate"
    /\ conditions.ok
    /\ Len(conditions.val) = 2

\* C19: a rule `A AND B` fires iff both clauses hold on the sample.  With
\* `cpu.usage > 80 AND memory.usage < 90`, the sample cpu.usage = 85, memory
\* used 400 of 1000 fires the rule, and the sample cpu.usage = 70, memory used
\* 400 of 1000 does not.
C19_AndFiresIffBoth ==
    (eval_pc = "done"
        /\ Len(expression.segments) = 2
        /\ expression.operators = <<"AND">>
        /\ \A i \in 1..2 : WellFormed(expression.segments[i]))
        => /\ (eval_result.ok /\ eval_result.val) = (ClauseValue(1) /\ ClauseValue(2))
           /\ (\A i \in 1..2 : evaluate_condition(metrics, conditions.val[i]).ok)
                 => eval_result.ok
           /\ (expression = RuleAB /\ metrics.mem_used = 400 /\ metrics.mem_total = 1000) =>
                 /\ metrics.cpu_usage = 85 => eval_result = Ok(TRUE)
                 /\ metrics.cpu_usage = 70 => eval_result = Ok(FALSE)

\* the rule has fired on the sample cpu.usage = 85, memory used 400 of 1000
C19_Witness ==
    /\ eval_pc = "done"
    /\ expression = RuleAB
    /\ metrics.cpu_usage = 85
    /\ metrics.mem_used = 400
    /\ metrics.mem_total = 1000
    /\ eval_result = Ok(TRUE)


\* ========================================================================
\* Alert engine (lynx-core/src/notify/processor.rs, queries.rs)
\* ========================================================================
\* GET_EXISTING_ALERT: date >= NOW() - INTERVAL '30 minutes'
SuppressionWindow == 30

\* process() invocations that may be in progress at the same time
Procs == {1, 2}
SystemIds == {1, 2}
ClockSteps == {15}

\* the rows of alert_rules, with the URLs alert_notifiers / notifiers give each
\* rule: the expression of rule 2 has no segment that matches COMPONENT_RE,
\* that of rule 4 does not parse, and rule 5 is not active
AlertRules ==
    << [id |-> 1, enabled |-> TRUE,
        expression |-> [segments |-> <<Clause("cpu", "usage", ">", Num(80))>>,
                        operators |-> <<>>],
        urls |-> <<"discord://1@a", "smtp://b">>],
       [id |-> 2, enabled |-> TRUE,
        expression |-> [segments |-> <<NoMatch>>, operators |-> <<>>],
        urls |-> <<"discord://1@a">>],
       [id |-> 3, enabled |-> TRUE,
        expression |-> [segments |-> <<Clause("disk", "usage", ">", Num(90))>>,
                        operators |-> <<>>],
        urls |-> <<"discord://1@a">>],
       [id |-> 4, enabled |-> TRUE,
        expression |-> [segments |-> <<Clause("cpu", "usage", "=>", Num(80))>>,
                        operators |-> <<>>],
        urls |-> <<"discord://1@a">>],
       [id |-> 5, enabled |-> FALSE,
        expression |-> [segments |-> <<Clause("cpu", "usage", ">", Num(80))>>,
                        operators |-> <<>>],
        urls |-> <<"discord://1@a">>] >>

\* the rows of alert_systems: the rule ids mapped to each system, in the
\* order GET_ALERT_SYSTEMS returns them
AlertSystems == [s \in SystemIds |-> IF s = 1 THEN <<4, 1, 2, 3>> ELSE <<5, 1>>]

\* the payloads passed to process(): with and without a disk
AlertPayloads ==
    LET bare == {m \in Payloads : m.mem_used = 400 /\ m.load_one = 1}
    IN  bare \cup {[m EXCEPT !.disk_stats = <<95>>] : m \in {x \in bare : x.cpu_usage = 70}}

\* register_metrics: each component the payload carries replaces the one
\* registered under its name; a payload with no disk registers no "disk"
register_metrics(reg, m) ==
    [cpu_usage |-> m.cpu_usage,
     mem_used |-> m.mem_used,
     mem_total |-> m.mem_total,
     load_one |-> m.load_one,
     disk_stats |-> IF m.disk_stats # <<>> THEN m.disk_stats ELSE reg.disk_stats]

\* GET_ALERT_RULES (WHERE id = $1 AND active = true) with fetch_one
GetAlertRule(id) ==
    IF AlertRules[id].enabled THEN Ok(AlertRules[id]) ELSE Err

\* load_rules: the loop over the alert_systems rows from row i on; a row
\* whose fetch_one finds nothing ends load_rules with the error, an
\* expression that does not parse is skipped
RECURSIVE LoadFrom(_, _, _)
LoadFrom(ids, i, acc) ==
    IF i > Len(ids) THEN Ok(acc)
    ELSE LET row == GetAlertRule(ids[i]) IN
         IF ~row.ok THEN Err
         ELSE IF ~parse_expression(row.val.expression).ok THEN LoadFrom(ids, i + 1, acc)
         ELSE LoadFrom(ids, i + 1, Append(acc, ids[i]))

load_rules(system_id, db_ok) ==
    IF db_ok THEN LoadFrom(AlertSystems[system_id], 1, <<>>) ELSE Err

\* the rule the for loop of process() is at
CurrentRule(p) == AlertRules[proc_rules[p][proc_rule[p]]]

\* GET_EXISTING_ALERT for (system, alert) at the current NOW()
ExistingAlert(system, alert) ==
    \E h \in alert_history :
        /\ h.system = system
        /\ h.alert = alert
        /\ h.date >= now - SuppressionWindow

\* process() returns: the call slot is free again
Return(p) ==
    /\ proc_rule' = [proc_rule EXCEPT ![p] = 0]
    /\ proc_pc' = [proc_pc EXCEPT ![p] = "idle"]
    /\ proc_system' = [proc_system EXCEPT ![p] = 0]
    /\ proc_call' = [proc_call EXCEPT ![p] = 0]
    /\ proc_rules' = [proc_rules EXCEPT ![p] = <<>>]
    /\ proc_metrics' = [proc_metrics EXCEPT ![p] = NoMetrics]

\* the for loop of process() goes on to its next rule, or process() returns Ok(())
NextRule(p) ==
    IF proc_rule[p] < Len(proc_rules[p])
    THEN /\ proc_rule' = [proc_rule EXCEPT ![p] = proc_rule[p] + 1]
         /\ proc_pc' = [proc_pc EXCEPT ![p] = "check"]
         /\ UNCHANGED <<proc_system, proc_call, proc_rules, proc_metrics>>
    ELSE Return(p)

InitAlert ==
    /\ now = 0
    /\ alert_history = {}
    /\ registry = NoMetrics
    /\ proc_pc = [p \in Procs |-> "idle"]
    /\ proc_system = [p \in Procs |-> 0]
    /\ proc_rule = [p \in Procs |-> 0]
    /\ proc_call = [p \in Procs |-> 0]
    /\ proc_rules = [p \in Procs |-> <<>>]
    /\ proc_metrics = [p \in Procs |-> NoMetrics]
    /\ calls = 0
    /\ sent = {}

\* time passes in the store
ClockTick(d) ==
    /\ now + d <= MaxNow
    /\ now' = now + d
    /\ UNCHANGED <<alert_history, registry, proc_pc, proc_system, proc_rule,
                   proc_call, proc_rules, proc_metrics, calls, sent>>

\* process(metrics, system_id) up to its loop: register_metrics, then load_rules
\* (db_ok = FALSE: a query of load_rules fails and process returns Err)
process_begin(p, m, system_id, db_ok) ==
    /\ proc_pc[p] = "idle"
    /\ calls < MaxCalls
    /\ calls' = calls + 1
    /\ registry' = register_metrics(registry, m)
    /\ LET rules == load_rules(system_id, db_ok)
       IN  IF rules.ok /\ rules.val # <<>>
           THEN /\ proc_call' = [proc_call EXCEPT ![p] = calls + 1]
                /\ proc_system' = [proc_system EXCEPT ![p] = system_id]
                /\ proc_rules' = [proc_rules EXCEPT ![p] = rules.val]
                /\ proc_metrics' = [proc_metrics EXCEPT ![p] = m]
                /\ proc_rule' = [proc_rule EXCEPT ![p] = 1]
                /\ proc_pc' = [proc_pc EXCEPT ![p] = "check"]
           ELSE Return(p)
    /\ UNCHANGED <<now, alert_history, sent>>

\* the enabled test and the GET_EXISTING_ALERT query for the rule of the loop
process_check(p, db_ok) ==
    /\ proc_pc[p] = "check"
    /\ LET rule == CurrentRule(p) IN
       IF ~rule.enabled THEN NextRule(p)
       ELSE IF ~db_ok THEN Return(p)
       ELSE IF ExistingAlert(proc_system[p], rule.id) THEN NextRule(p)
       ELSE /\ proc_pc' = [proc_pc EXCEPT ![p] = "evaluate"]
            /\ UNCHANGED <<proc_rule, proc_system, proc_call, proc_rules, proc_metrics>>
    /\ UNCHANGED <<now, alert_history, registry, calls, sent>>

\* evaluator.evaluate_rule(&rule) on the shared registry
process_evaluate(p) ==
    /\ proc_pc[p] = "evaluate"
    /\ LET rule == CurrentRule(p)
           fired == evaluate_rule(registry, parse_expression(rule.expression).val)
       IN IF fired.ok /\ fired.val
          THEN /\ proc_pc' = [proc_pc EXCEPT ![p] = "insert"]
               /\ UNCHANGED <<proc_rule, proc_system, proc_call, proc_rules, proc_metrics>>
          ELSE NextRule(p)
    /\ UNCHANGED <<now, alert_history, registry, calls, sent>>

\* INSERT_ALERT_HISTORY; a failure is logged and the call goes on to dispatch
process_insert(p, db_ok) ==
    /\ proc_pc[p] = "insert"
    /\ alert_history' =
          IF db_ok
          THEN alert_history \cup {[system |-> proc_system[p],
                                    alert |-> CurrentRule(p).id,
                                    date |-> now]}
          ELSE alert_history
    /\ proc_pc' = [proc_pc EXCEPT ![p] = "dispatch"]
    /\ UNCHANGED <<now, registry, proc_system, proc_rule, proc_call, proc_rules,
                   proc_metrics, calls, sent>>

\* the message goes to every notifier URL of the rule
process_dispatch(p) ==
    /\ proc_pc[p] = "dispatch"
    /\ sent' = sent \cup {[system |-> proc_system[p],
                           alert |-> CurrentRule(p).id,
                           date |-> now,
                           call |-> proc_call[p],
                           urls |-> CurrentRule(p).urls]}
    /\ NextRule(p)
    /\ UNCHANGED <<now, alert_history, registry, calls>>

NextAlert ==
    \/ /\ \E d \in ClockSteps : ClockTick(d)
       /\ UNCHANGED othersOfAlert
    \/ /\ \E p \in Procs, m \in AlertPayloads, system_id \in SystemIds, db_ok \in BOOLEAN :
             process_begin(p, m, system_id, db_ok)
       /\ UNCHANGED othersOfAlert
    \/ /\ \E p \in Procs, db_ok \in BOOLEAN : process_check(p, db_ok)
       /\ UNCHANGED othersOfAlert
    \/ /\ \E p \in Procs : process_evaluate(p)
       /\ UNCHANGED othersOfAlert
    \/ /\ \E p \in Procs, db_ok \in BOOLEAN : process_insert(p, db_ok)
       /\ UNCHANGED othersOfAlert
    \/ /\ \E p \in Procs : process_dispatch(p)
       /\ UNCHANGED othersOfAlert

\* ------------------------------------------------------------------------
\* Properties of the alert engine
\* ------------------------------------------------------------------------
\* C1: for any system and rule, no two dispatches of process() invocations fall
\* within one 30-minute suppression window, whatever the interleaving of the
\* history check, the history insert and the dispatch, and also when the
\* history insert fails.
C1_OneDispatchPerWindow ==
    \A a, b \in sent :
        (a.system = b.system /\ a.alert = b.alert /\ a.call # b.call)
            => (a.date - b.date >= SuppressionWindow \/ b.date - a.date >= SuppressionWindow)

\* the conditions load_rules stores for the rule with this id
RuleConditions(id) ==
    parse_expression(AlertRules[CHOOSE i \in 1..Len(AlertRules) : AlertRules[i].id = id].expression)

\* C16: a rule whose expression yields zero parsed clauses is never triggered:
\* no alert-history row is inserted for it and no notifier is dispatched for it.
C16_ZeroClauseNeverTriggers ==
    \A i \in 1..Len(AlertRules) :
        RuleConditions(AlertRules[i].id) = Ok(<<>>) =>
            /\ \A h \in alert_history : h.alert # AlertRules[i].id
            /\ \A s \in sent : s.alert # AlertRules[i].id

\* the rules mapped to a system that are enabled in the store and whose
\* expression parses, in the order of alert_systems
UsableRules(system_id) ==
    SelectSeq(AlertSystems[system_id],
              LAMBDA id : AlertRules[id].enabled
                              /\ parse_expression(AlertRules[id].expression).ok)

\* C35: when the store answers every query, a process() call loads every
\* rule mapped to its system that is enabled and parses, and goes through
\* them; a disabled or unparsable rule mapped to the system removes only
\* itself from the cycle.
C35_BadRuleSkippedAlone ==
    [][\A p \in Procs, m \in AlertPayloads, system_id \in SystemIds :
          process_begin(p, m, system_id, TRUE) =>
              /\ \A i \in 1..Len(UsableRules(system_id)) :
                    \E j \in 1..Len(proc_rules'[p]) :
                        proc_rules'[p][j] = UsableRules(system_id)[i]
              /\ proc_pc'[p] = "check"]_vars

\* C36: whenever a process() call evaluates a rule, every condition of the
\* rule resolves in the registry to what it resolves to in the metrics
\* payload of that call.
C36_OwnPayloadOnly ==
    \A p \in Procs :
        proc_pc[p] = "evaluate" =>
            LET conds == parse_expression(CurrentRule(p).expression).val
            IN  \A i \in 1..Len(conds) :
                    get_metric(registry, conds[i].component, conds[i].metric)
                        = get_metric(proc_metrics[p], conds[i].component, conds[i].metric)

\* ========================================================================
\* Notifiers: construction from a URL and the per-rule dispatch loop
\* (lynx-core/src/notify/services.rs, lynx-core/src/notify/processor.rs)
\* ========================================================================
\* A URL is the sequence of its pieces; "://", "@", "?", "=", "&", ":", "+"
\* and "%20" are pieces of their own, so splitting and joining work on
\* pieces exactly as the string operations work on characters.
DiscordQueries ==
    { <<>>,
      <<"?", "username", "=", "My", "+", "Bot">> }

DiscordUrls == { <<"discord", "://", "1234567890", "@", "AbcToken">> \o q : q \in DiscordQueries }

EncodedUrls ==
    { <<"discord", "://", "1234567890", "@", "AbcToken", "?", "username", "=", "My", "%20", "Bot">> }

SmtpUrls ==
    { <<"smtp", "://", "user", ":", "pw", "@", "mail", ":", "587", "?", "from", "=", "a", "&", "to", "=", "b">>,
      <<"smtp", "://", "user", "@", "mail", ":", "587", "?", "from", "=", "a", "&", "to", "=", "b">> }

OtherUrls == { <<"slack", "://", "hooks", "@", "T0">> }

NotifierUrls == DiscordUrls \cup EncodedUrls \cup SmtpUrls \cup OtherUrls

UrlLists == UNION { [1..n -> NotifierUrls] : n \in 0..MaxUrls }

\* str::split: the pieces between occurrences of sep, empty ones included
RECURSIVE SplitAcc(_, _, _, _, _)
SplitAcc(s, sep, i, cur, acc) ==
    IF i > Len(s) THEN Append(acc, cur)
    ELSE IF s[i] = sep THEN SplitAcc(s, sep, i + 1, <<>>, Append(acc, cur))
    ELSE SplitAcc(s, sep, i + 1, Append(cur, s[i]), acc)

Split(s, sep) == SplitAcc(s, sep, 1, <<>>, <<>>)

\* str::replace of one piece by another
Replace(s, from, to) == [i \in 1..Len(s) |-> IF s[i] = from THEN to ELSE s[i]]

\* urlencoding::decode: percent escapes become the characters they encode
UrlDecode(s) == Replace(s, "%20", " ")

StartsWith(url, scheme) == Len(url) >= 2 /\ url[1] = scheme /\ url[2] = "://"

ConfigError(msg) == [ok |-> FALSE, err |-> "ConfigError", msg |-> msg]

WebhookPrefix == "https://discord.com/api/webhooks/"

DefaultUsername == <<"Lynx Monitor">>

DiscordService_from_url(u) ==
    LET url == UrlDecode(u)
        parts == Split(url, "://")
        q == Split(url, "?")
        kv == IF Len(q) >= 2 THEN Split(q[2], "=") ELSE <<>>
        username == IF Len(kv) >= 2 THEN Replace(kv[2], "+", " ") ELSE DefaultUsername
    IN  IF Len(parts) < 2 THEN ConfigError("Invalid Discord webhook URL")
        ELSE LET channel_id == parts[Len(parts) - 1]
                 token == parts[Len(parts)]
             IN  Ok([kind |-> "Discord",
                     webhook_url |-> <<WebhookPrefix>> \o channel_id \o <<"/">> \o token,
                     username |-> username])

\* the value of query parameter k, if the query has it
QueryParam(params, k) ==
    LET hits == { i \in 1..Len(params) : Len(params[i]) >= 1 /\ params[i][1] = k }
    IN  IF hits = {} THEN Err
        ELSE LET kv == Split(params[CHOOSE i \in hits : \A j \in hits : i >= j], "=")
             IN  Ok(IF Len(kv) >= 2 THEN kv[2] ELSE <<>>)

DefaultSubject == <<"Lynx Monitor Alert">>

EmailService_from_url(u) ==
    LET url == UrlDecode(u)
        q == Split(SubSeq(url, 3, Len(url)), "?")
        at == Split(q[1], "@")
        userinfo == IF Len(at) >= 2 THEN Split(at[1], ":") ELSE <<>>
        hostport == Split(at[Len(at)], ":")
        params == IF Len(q) >= 2 THEN Split(q[2], "&") ELSE <<>>
        from_email == QueryParam(params, "from")
        to_email == QueryParam(params, "to")
        subject == QueryParam(params, "subject")
    IN  IF url[1] # "smtp" THEN ConfigError("Invalid email URL scheme")
        ELSE IF Len(userinfo) < 2 THEN ConfigError("Missing SMTP password")
        ELSE IF hostport[1] = <<>> THEN ConfigError("Missing SMTP server")
        ELSE IF Len(hostport) < 2 THEN ConfigError("Missing SMTP port")
        ELSE IF ~from_email.ok THEN ConfigError("Missing from email")
        ELSE IF ~to_email.ok THEN ConfigError("Missing to email")
        ELSE Ok([kind |-> "Email",
                 smtp_server |-> hostport[1],
                 smtp_port |-> hostport[2],
                 username |-> userinfo[1],
                 password |-> userinfo[2],
                 from_email |-> from_email.val,
                 to_email |-> to_email.val,
                 subject |-> IF subject.ok THEN subject.val ELSE DefaultSubject])

from_url(url) ==
    IF StartsWith(url, "discord") THEN DiscordService_from_url(url)
    ELSE IF StartsWith(url, "smtp") THEN EmailService_from_url(url)
    ELSE ConfigError("Unsupported notification service")

\* get_or_create_service, run under the services mutex from the lookup to
\* the insert: the cached service of the URL, else a new one that is cached
\* only when construction succeeds; built tells whether from_url was called
get_or_create_service_NoLookup(cached, url) ==
    LET made == from_url(url)
    IN  IF made.ok
        THEN [result |-> made, services |-> (url :> made.val) @@ cached, built |-> TRUE]
        ELSE [result |-> made, services |-> cached, built |-> TRUE]

get_or_create_service(cached, url) ==
    IF url \in DOMAIN cached
    THEN [result |-> Ok(cached[url]), services |-> cached, built |-> FALSE]
    ELSE LET made == from_url(url)
         IN  IF made.ok
             THEN [result |-> made, services |-> (url :> made.val) @@ cached, built |-> TRUE]
             ELSE [result |-> made, services |-> cached, built |-> TRUE]

\* the objects constructed after one get_or_create_service call for url
BuiltAfter(built, url, got) ==
    [built EXCEPT ![url] = @ + (IF got.built /\ got.result.ok THEN 1 ELSE 0)]

\* neither match arm of the loop body leaves the loop: both only log
LoopContinues_StopOnError(outcome) == outcome = "sent"

LoopContinues(outcome) == TRUE

InitNotify ==
    /\ ntf_pc = "idle"
    /\ ntf_urls = <<>>
    /\ ntf_i = 0
    /\ ntf_services = <<>>
    /\ ntf_outcomes = <<>>
    /\ ntf_rule = 0
    /\ ntf_built = [url \in NotifierUrls |-> 0]

\* Ok(true): the rule fired and the loop over its notifier URLs starts
ntf_fire(urls) ==
    /\ ntf_pc = "idle"
    /\ ntf_rule < MaxFired
    /\ ntf_urls' = urls
    /\ ntf_outcomes' = <<>>
    /\ IF urls = <<>>
       THEN /\ ntf_rule' = ntf_rule + 1
            /\ UNCHANGED <<ntf_pc, ntf_i>>
       ELSE /\ ntf_pc' = "dispatch"
            /\ ntf_i' = 1
            /\ UNCHANGED ntf_rule
    /\ UNCHANGED <<ntf_services, ntf_built>>

\* one iteration of for url in notifier_urls
ntf_dispatch(send_ok) ==
    /\ ntf_pc = "dispatch"
    /\ LET got == get_or_create_service(ntf_services, ntf_urls[ntf_i])
           outcome == IF ~got.result.ok THEN "create_failed"
                      ELSE IF send_ok THEN "sent" ELSE "send_failed"
       IN  /\ ntf_services' = got.services
           /\ ntf_built' = BuiltAfter(ntf_built, ntf_urls[ntf_i], got)
           /\ ntf_outcomes' = Append(ntf_outcomes, outcome)
           /\ IF LoopContinues(outcome) /\ ntf_i < Len(ntf_urls)
              THEN /\ ntf_i' = ntf_i + 1
                   /\ UNCHANGED <<ntf_pc, ntf_rule>>
              ELSE /\ ntf_pc' = "idle"
                   /\ ntf_rule' = ntf_rule + 1
                   /\ UNCHANGED ntf_i
    /\ UNCHANGED ntf_urls

\* a process() call of another system, running at the same time on the same
\* NotificationProcessor, reaches get_or_create_service for one of its URLs
ntf_concurrent(url) ==
    /\ LET got == get_or_create_service(ntf_services, url)
       IN  /\ ntf_services' = got.services
           /\ ntf_built' = BuiltAfter(ntf_built, url, got)
    /\ UNCHANGED <<ntf_pc, ntf_urls, ntf_i, ntf_outcomes, ntf_rule>>

NextNotify ==
    \/ \E urls \in UrlLists : ntf_fire(urls) /\ UNCHANGED othersOfNotify
    \/ \E send_ok \in BOOLEAN : ntf_dispatch(send_ok) /\ UNCHANGED othersOfNotify
    \/ \E url \in NotifierUrls : ntf_concurrent(url) /\ UNCHANGED othersOfNotify

\* ------------------------------------------------------------------------
\* Notifier properties
\* ------------------------------------------------------------------------
\* the username the URL form discord://{channel_id}@{token}[?username=...] names
ClaimedUsername(url) ==
    IF Len(url) > 5 THEN Replace(SubSeq(url, 9, Len(url)), "+", " ") ELSE DefaultUsername

\* C24: a notifier built from discord://{channel_id}@{token}[?username=..]
\* has the webhook URL https://discord.com/api/webhooks/{channel_id}/{token}
\* and the username with + turned into a space (the default when absent).
C24_DiscordWebhookUrl ==
    \A url \in DOMAIN ntf_services :
        url \in DiscordUrls =>
            /\ ntf_services[url].webhook_url = <<WebhookPrefix, url[3], "/", url[5]>>
            /\ ntf_services[url].username = ClaimedUsername(url)

\* C25: a URL whose scheme is neither discord:// nor smtp:// gives a
\* configuration error and no notifier object; when constructing or sending
\* through one URL of a fired rule fails, the loop still goes on to the
\* rule's remaining URLs, and after the last one to the remaining rules.
C25_FailureDoesNotStopDispatch ==
    [][ntf_pc = "dispatch" /\ Len(ntf_outcomes') = Len(ntf_outcomes) + 1 =>
          LET url == ntf_urls[ntf_i]
              outcome == ntf_outcomes'[Len(ntf_outcomes')]
          IN  /\ ~StartsWith(url, "discord") /\ ~StartsWith(url, "smtp") =>
                    /\ from_url(url) = ConfigError("Unsupported notification service")
                    /\ outcome = "create_failed"
                    /\ url \notin DOMAIN ntf_services'
              /\ outcome \in {"create_failed", "send_failed"} =>
                    IF ntf_i < Len(ntf_urls)
                    THEN ntf_pc' = "dispatch" /\ ntf_i' = ntf_i + 1 /\ ntf_urls' = ntf_urls
                    ELSE ntf_pc' = "idle" /\ ntf_rule' = ntf_rule + 1
              /\ ntf_pc' = "idle" => Len(ntf_outcomes') = Len(ntf_urls')]_vars

C25_Witness ==
    /\ ntf_pc = "idle"
    /\ ntf_rule = 2
    /\ Len(ntf_urls) = 2
    /\ ntf_urls[1] \in OtherUrls
    /\ ntf_outcomes = <<"create_failed", "sent">>

\* C32: notifier objects are cached per URL: at most one object is ever
\* constructed for each valid URL, every other call for that URL is served
\* the cached object, and a URL whose construction fails is never cached.
C32_OneNotifierPerUrl ==
    \A url \in NotifierUrls :
        /\ ntf_built[url] <= 1
        /\ ntf_built[url] = 1 <=> url \in DOMAIN ntf_services
        /\ url \in DOMAIN ntf_services =>
              /\ from_url(url).ok
              /\ ntf_services[url] = from_url(url).val
        /\ ~from_url(url).ok => url \notin DOMAIN ntf_services

\* the first fired rule names one URL twice and has been served both times
\* from one construction, while a concurrent call has constructed the
\* notifier of another URL
C32_Witness ==
    /\ ntf_rule = 1
    /\ ntf_pc = "idle"
    /\ Len(ntf_urls) = 2
    /\ ntf_urls[1] = ntf_urls[2]
    /\ ntf_outcomes = <<"sent", "sent">>
    /\ ntf_built[ntf_urls[1]] = 1
    /\ \E v \in DOMAIN ntf_services : v # ntf_urls[1]

\* ========================================================================
\* Hub TLS configuration (lynx-core/src/tls.rs)
\* ========================================================================
CertFiles == {"server.crt", "server.key", "ca.crt"}
Absent == "absent"            \* no such path
Unreadable == "unreadable"    \* the path exists but read_to_string fails
Contents == [CertFiles -> {Absent, Unreadable, "", "PEM"}]
NoFiles == [f \in CertFiles |-> Absent]
NoResult == [ok |-> FALSE, msg |-> "not called"]

TlsError(msg) == [ok |-> FALSE, msg |-> msg]

Exists(files, f) == files[f] # Absent

read_to_string(files, f) ==
    IF files[f] = Unreadable THEN TlsError("io error") ELSE Ok(files[f])

\* .client_auth_optional(false)
ClientAuthOptional_True == TRUE

ClientAuthOptional == FALSE

build_tls_config(dir, files) ==
    IF ~dir THEN TlsError("Certificates directory not found")
    ELSE IF ~Exists(files, "server.crt") \/ ~Exists(files, "server.key")
    THEN TlsError("Server certificate or key not found")
    ELSE IF ~Exists(files, "ca.crt") THEN TlsError("CA certificate not found")
    ELSE LET server_cert == read_to_string(files, "server.crt")
             server_key == read_to_string(files, "server.key")
             ca_cert == read_to_string(files, "ca.crt")
         IN  IF ~server_cert.ok THEN server_cert
             ELSE IF ~server_key.ok THEN server_key
             ELSE IF server_cert.val = "" \/ server_key.val = ""
             THEN TlsError("Server certificate or key is empty")
             ELSE IF ~ca_cert.ok THEN ca_cert
             ELSE Ok([identity |-> <<server_cert.val, server_key.val>>,
                      client_ca_root |-> ca_cert.val,
                      client_auth_optional |-> ClientAuthOptional])

\* a connecting client: no certificate, one issued by the CA of ca.crt, or
\* one issued by somebody else
Clients == [issuer : {"none", "PEM", "other"}]

\* the server side of the handshake under a ServerTlsConfig
Handshake(cfg, client) ==
    IF client.issuer = "none" THEN cfg.client_auth_optional
    ELSE cfg.client_ca_root # "" /\ client.issuer = cfg.client_ca_root

InitTls ==
    /\ tls_dir = FALSE
    /\ tls_files = NoFiles
    /\ tls_result = NoResult
    /\ tls_handshakes = {}

\* the operator puts files into the certificate directory before the hub starts
tls_install(files) ==
    /\ tls_result = NoResult
    /\ tls_dir' = TRUE
    /\ tls_files' = files
    /\ UNCHANGED <<tls_result, tls_handshakes>>

tls_build ==
    /\ tls_result = NoResult
    /\ tls_result' = build_tls_config(tls_dir, tls_files)
    /\ UNCHANGED <<tls_dir, tls_files, tls_handshakes>>

tls_connect(client) ==
    /\ tls_result.ok
    /\ \A c \in tls_handshakes : c.client # client
    /\ tls_handshakes' = tls_handshakes \cup
           {[client |-> client, accepted |-> Handshake(tls_result.val, client)]}
    /\ UNCHANGED <<tls_dir, tls_files, tls_result>>

NextTls ==
    \/ \E files \in Contents : tls_install(files) /\ UNCHANGED othersOfTls
    \/ tls_build /\ UNCHANGED othersOfTls
    \/ \E client \in Clients : tls_connect(client) /\ UNCHANGED othersOfTls

\* ------------------------------------------------------------------------
\* TLS properties
\* ------------------------------------------------------------------------
Called == tls_result # NoResult

AllReadable == \A f \in CertFiles : tls_files[f] \notin {Absent, Unreadable}

ListedErrorCase ==
    \/ ~tls_dir
    \/ \E f \in CertFiles : tls_files[f] = Absent
    \/ tls_files["server.crt"] = "" \/ tls_files["server.key"] = ""

\* C27 as stated: an error naming the missing directory when the directory
\* does not exist; an error when one of the three files is missing or the
\* certificate or key is empty; in every other case a configuration that
\* demands a client certificate signed by the CA, so that a client without
\* a valid identity is rejected.
C27_TlsConfigOrListedError ==
    Called =>
        /\ ~tls_dir => ~tls_result.ok /\ tls_result.msg = "Certificates directory not found"
        /\ ListedErrorCase => ~tls_result.ok
        /\ ~ListedErrorCase =>
              /\ tls_result.ok
              /\ ~tls_result.val.client_auth_optional
              /\ tls_result.val.client_ca_root = tls_files["ca.crt"]
        /\ \A c \in tls_handshakes : c.accepted => c.client.issuer = tls_files["ca.crt"]

\* C27, amended: as above, but the configuration is returned only when the
\* three files can also be read; a file that exists and cannot be read
\* gives the read error instead.
C27_TlsConfigOrError ==
    Called =>
        /\ ~tls_dir => ~tls_result.ok /\ tls_result.msg = "Certificates directory not found"
        /\ ListedErrorCase => ~tls_result.ok
        /\ ~ListedErrorCase /\ ~AllReadable => ~tls_result.ok
        /\ ~ListedErrorCase /\ AllReadable =>
              /\ tls_result.ok
              /\ ~tls_result.val.client_auth_optional
              /\ tls_result.val.client_ca_root = tls_files["ca.crt"]
        /\ \A c \in tls_handshakes : c.accepted => c.client.issuer = tls_files["ca.crt"]

C27_Witness ==
    /\ tls_result.ok
    /\ [client |-> [issuer |-> "none"], accepted |-> FALSE] \in tls_handshakes
    /\ [client |-> [issuer |-> "other"], accepted |-> FALSE] \in tls_handshakes
    /\ [client |-> [issuer |-> "PEM"], accepted |-> TRUE] \in tls_handshakes

\* ========================================================================
\* Agent: collectors, queue and transport loop
\* (lynx-agent/src/lib/collectors.rs, lynx-agent/src/main.rs)
\* ========================================================================
Collectors == {"MetricsCollector", "SystemInfoCollector", "SystemctlCollector"}

\* the CollectorRequest variant each collector sends (on a host without GPUs
\* MetricsCollector sends nothing after its Metrics request)
RequestOf(c) ==
    CASE c = "MetricsCollector" -> "Metrics"
      [] c = "SystemInfoCollector" -> "SystemInfo"
      [] OTHER -> "Systemctl"

NoRequest == [id |-> 0, kind |-> None]

\* what a collector holds while its probe is stuck
Hung == [id |-> 0, kind |-> "Hung"]

\* collectors whose probe waits for a subprocess
HangingProbes == {"SystemctlCollector"}

\* what stands for a collector whose task has ended (its Sender is dropped)
Finished == [id |-> 0, kind |-> "Finished"]

\* the Senders of the channel that are alive: one clone per running collector
\* task, and the tx that main itself keeps until it returns
Senders(p) == {c \in Collectors : p[c] # Finished} \cup {"main"}

\* what timeout(rpc_timeout, client.<rpc>(request)).await can yield:
\* Ok(Ok(status "200")), Ok(Ok(other status)), Ok(Err(code)), Err(elapsed)
RpcOutcomes == {"Ok200", "OkNot200", "Unauthenticated", "Unavailable",
                "DeadlineExceeded", "Elapsed"}
ReconnectOutcomes_AnyError ==
    {"Unauthenticated", "Unavailable", "DeadlineExceeded", "Elapsed"}

ReconnectOutcomes == {"Unavailable", "DeadlineExceeded", "Elapsed"}

\* the channel after an RPC for req has returned: the request was moved into
\* the call, so nothing goes back to the channel
QueueAfterRpc_Requeue(q, req, outcome) ==
    IF outcome \in ReconnectOutcomes THEN Append(q, req) ELSE q

QueueAfterRpc(q, req, outcome) == q

\* main has not returned
AgentRunning == transport_pc \notin {"failed", "closed"}

InitAgent ==
    /\ queue = <<>>
    /\ pending = [c \in Collectors |-> NoRequest]
    /\ tick_due = [c \in Collectors |-> TRUE]
    /\ produced = 0
    /\ transport_pc = "recv"
    /\ request = NoRequest
    /\ rpc_log = [id \in 1..MaxSamples |-> <<>>]
    /\ dequeued = {}
    /\ session = 0

\* the collector's task calls interval.tick() only after collect(..).await
\* has returned: p is the request the running collect still holds
TickAwaitsCollect_Spawned(p) == TRUE

TickAwaitsCollect(p) == p = NoRequest

\* the period of the collector's interval passes; the first tick of an
\* interval is due at once
period_elapses(c) ==
    /\ AgentRunning
    /\ pending[c] # Finished
    /\ ~tick_due[c]
    /\ tick_due' = [tick_due EXCEPT ![c] = TRUE]
    /\ UNCHANGED <<queue, pending, produced, transport_pc, request, rpc_log, dequeued,
                   session>>

\* Collector::collect on a tick: gather one request and tx.send(request).await;
\* with no free slot in the channel the send waits, holding the request
collect(c) ==
    /\ AgentRunning
    /\ TickAwaitsCollect(pending[c])
    /\ tick_due[c]
    /\ tick_due' = [tick_due EXCEPT ![c] = FALSE]
    /\ produced < MaxSamples
    /\ produced' = produced + 1
    /\ LET req == [id |-> produced + 1, kind |-> RequestOf(c)] IN
       IF Len(queue) < QueueCap
       THEN /\ queue' = Append(queue, req)
            /\ UNCHANGED pending
       ELSE /\ pending' = [pending EXCEPT ![c] = req]
            /\ UNCHANGED queue
    /\ UNCHANGED <<transport_pc, request, rpc_log, dequeued, session>>

\* the probe a collector runs inside collect never returns (the systemctl
\* subprocess does not exit): collect(..).await stays pending for good, the
\* loop has no timeout around it
probe_hangs(c) ==
    /\ AgentRunning
    /\ c \in HangingProbes
    /\ TickAwaitsCollect(pending[c])
    /\ tick_due[c]
    /\ tick_due' = [tick_due EXCEPT ![c] = FALSE]
    /\ pending' = [pending EXCEPT ![c] = Hung]
    /\ UNCHANGED <<queue, produced, transport_pc, request, rpc_log, dequeued, session>>

\* the collector's task ends: collect panics on this tick (an arithmetic
\* overflow in a probe, say) and the task's Sender is dropped
collector_panics(c) ==
    /\ AgentRunning
    /\ TickAwaitsCollect(pending[c])
    /\ tick_due[c]
    /\ tick_due' = [tick_due EXCEPT ![c] = FALSE]
    /\ pending' = [pending EXCEPT ![c] = Finished]
    /\ UNCHANGED <<queue, produced, transport_pc, request, rpc_log, dequeued, session>>

\* a waiting tx.send(..).await completes once the channel has a free slot
send_completes(c) ==
    /\ AgentRunning
    /\ pending[c] \notin {NoRequest, Hung, Finished}
    /\ Len(queue) < QueueCap
    /\ queue' = Append(queue, pending[c])
    /\ pending' = [pending EXCEPT ![c] = NoRequest]
    /\ UNCHANGED <<tick_due, produced, transport_pc, request, rpc_log, dequeued, session>>

\* rx.recv(): Some(request) when the channel holds one; None, and the else
\* branch that breaks the loop, when it is empty and every Sender is dropped
transport_recv ==
    /\ transport_pc = "recv"
    /\ IF queue # <<>>
       THEN /\ request' = Head(queue)
            /\ queue' = Tail(queue)
            /\ dequeued' = dequeued \cup {Head(queue).id}
            /\ transport_pc' = "rpc"
       ELSE /\ Senders(pending) = {}
            /\ transport_pc' = "closed"
            /\ UNCHANGED <<request, queue, dequeued>>
    /\ UNCHANGED <<pending, tick_due, produced, rpc_log, session>>

\* the RPC for the request returns, or its 10 s timeout elapses
transport_rpc(outcome) ==
    /\ transport_pc = "rpc"
    /\ rpc_log' = [rpc_log EXCEPT ![request.id] = Append(@, outcome)]
    /\ queue' = QueueAfterRpc(queue, request, outcome)
    /\ request' = NoRequest
    /\ transport_pc' = IF outcome \in ReconnectOutcomes THEN "reconnect" ELSE "recv"
    /\ UNCHANGED <<pending, tick_due, produced, dequeued, session>>

\* make_client(..)?; endpoint.connect().await?; client = ...: one connection
\* attempt; when it fails the ? returns the error from main
transport_reconnect(connected) ==
    /\ transport_pc = "reconnect"
    /\ IF connected
       THEN /\ session' = session + 1
            /\ transport_pc' = "recv"
       ELSE /\ transport_pc' = "failed"
            /\ UNCHANGED session
    /\ UNCHANGED <<queue, pending, tick_due, produced, request, rpc_log, dequeued>>

NextAgent ==
    \/ /\ \E c \in Collectors : period_elapses(c)
       /\ UNCHANGED othersOfAgent
    \/ /\ \E c \in Collectors : collect(c)
       /\ UNCHANGED othersOfAgent
    \/ /\ \E c \in Collectors : probe_hangs(c)
       /\ UNCHANGED othersOfAgent
    \/ /\ \E c \in Collectors : collector_panics(c)
       /\ UNCHANGED othersOfAgent
    \/ /\ \E c \in Collectors : send_completes(c)
       /\ UNCHANGED othersOfAgent
    \/ /\ transport_recv
       /\ UNCHANGED othersOfAgent
    \/ /\ \E outcome \in RpcOutcomes : transport_rpc(outcome)
       /\ UNCHANGED othersOfAgent
    \/ /\ \E connected \in BOOLEAN : transport_reconnect(connected)
       /\ UNCHANGED othersOfAgent

\* ------------------------------------------------------------------------
\* Properties of the agent
\* ------------------------------------------------------------------------
\* C6: a collector's send to the shared bounded queue never waits for the
\* consumer: no collector is ever holding a request because the queue is full
\* (the sample would have been dropped and counted instead).
C6_SendsNeverWait ==
    \A c \in Collectors : pending[c] = NoRequest

QueuedIds == {queue[i].id : i \in 1..Len(queue)}
PendingIds == {pending[c].id : c \in Collectors}

\* C7: delivery is at-most-once: every request the transport loop has dequeued
\* is submitted in at most one RPC, whatever its outcome, and is never back in
\* the queue.
C7_AtMostOnce ==
    \A id \in dequeued :
        /\ Len(rpc_log[id]) <= 1
        /\ id \notin QueuedIds
        /\ id \notin PendingIds
        /\ (Len(rpc_log[id]) = 0 <=> request.id = id)

\* a request whose only RPC failed with Unavailable, a reconnect after it, and
\* a later request that got its RPC on the new session
C7_Witness ==
    /\ session >= 1
    /\ transport_pc = "recv"
    /\ \E id, later \in dequeued :
          /\ id # later
          /\ rpc_log[id] = <<"Unavailable">>
          /\ rpc_log[later] = <<"Ok200">>

\* C8: a reconnect attempt that fails is retried (with backoff) and does not
\* end the transport loop.
C8_FailedReconnectKeepsLoop ==
    transport_pc # "failed"

\* C22: when an RPC returns an error status other than Unavailable or
\* DeadlineExceeded (Unauthenticated here), or a response whose status is not
\* "200", the transport loop keeps its session (no reconnect), puts nothing
\* back in the queue and goes on to rx.recv() for the next queued sample.
C22_OtherStatusKeepsSession ==
    [][(transport_pc = "rpc" /\ transport_pc' # "rpc"
           /\ rpc_log'[request.id][Len(rpc_log'[request.id])]
                 \in {"Unauthenticated", "OkNot200"}) =>
          /\ transport_pc' = "recv"
          /\ session' = session
          /\ queue' = queue
          /\ request' = NoRequest]_vars

\* on the first session one request was answered Unauthenticated, another got
\* a status other than "200", and a later one has been sent successfully
C22_Witness ==
    /\ session = 0
    /\ transport_pc = "recv"
    /\ \E a, b, c \in dequeued :
          /\ a < b /\ b < c
          /\ {rpc_log[a], rpc_log[b]} = {<<"Unauthenticated">>, <<"OkNot200">>}
          /\ rpc_log[c] = <<"Ok200">>

\* C31: a probe invocation that does not finish within its per-tick timeout
\* is abandoned and the collector proceeds to its next tick: a collector
\* whose probe hangs can still reach a next tick.
C31_HungProbeAbandoned ==
    \A c \in Collectors :
        (AgentRunning /\ pending[c] = Hung /\ produced < MaxSamples) =>
            ENABLED (period_elapses(c) \/ collect(c) \/ probe_hangs(c))

\* C40: when every collector task has terminated, the transport loop sees
\* the closed queue, drains what is queued and leaves the main loop; it does
\* not wait on an empty queue that no producer can fill.
C40_ClosedQueueEndsLoop ==
    (/\ \A c \in Collectors : pending[c] = Finished
     /\ queue = <<>>
     /\ transport_pc = "recv")
        => ENABLED transport_recv

\* C30: ticks of one collector never overlap: a collect call of a collector
\* starts only when its previous collect call has returned; a period that
\* passes while collect is still running only makes the next tick due, it
\* starts nothing; ticks of different collectors may interleave.
C30_TicksNeverOverlap ==
    [][\A c \in Collectors :
          /\ (tick_due[c] /\ ~tick_due'[c]) => pending[c] = NoRequest
          /\ (pending[c] # NoRequest /\ pending'[c] # pending[c]) => pending'[c] = NoRequest
          /\ (pending[c] # NoRequest /\ ~tick_due[c] /\ tick_due'[c]) =>
                UNCHANGED <<queue, pending, produced>>]_vars

\* one collector is still inside collect with its next tick already due,
\* while another collector is inside its own collect
C30_Witness ==
    \E c, d \in Collectors :
        /\ c # d
        /\ pending[c].id > 0
        /\ tick_due[c]
        /\ pending[d].id > 0


\* ========================================================================
\* Network throughput probe (lynx-agent/src/lib/system_info.rs)
\* ========================================================================
\* net.total_received() / total_transmitted() are u64 byte counters.  The
\* model keeps the arithmetic of an unsigned integer of CounterBits bits, a
\* width at which the wrapped difference of the snapshots below is still
\* several megabytes.
CounterBits == 24
CounterModulus == 2 ^ CounterBits
MB == 1024 * 1024

\* totals a snapshot may show, in bytes
Counters == {0, MB, 2 * MB, 5 * MB}
Snapshots == [in : Counters, out : Counters]
NoSnapshot == [in |-> 0 - 1, out |-> 0 - 1]
NoStats == [in |-> 0 - 1, out |-> 0 - 1]

\* macro_rules! to_mb
to_mb(x) == (x \div 1024) \div 1024

\* a - b on unsigned integers: with overflow checks a panic when b > a,
\* without them the difference modulo 2^bits
Sub(a, b, checks) ==
    IF b > a /\ checks
    THEN [panic |-> TRUE, val |-> 0]
    ELSE [panic |-> FALSE, val |-> (a - b) % CounterModulus]

InitNet ==
    /\ net_pc = "off"
    /\ net_checks = FALSE
    /\ net_first = NoSnapshot
    /\ net_second = NoSnapshot
    /\ net_stats = NoStats

\* the agent binary starts; overflow-checks is a property of the build profile
net_start(checks) ==
    /\ net_pc = "off"
    /\ net_pc' = "idle"
    /\ net_checks' = checks
    /\ UNCHANGED <<net_first, net_second, net_stats>>

\* first snapshot, then sleep(1 s)
net_snapshot(totals) ==
    /\ net_pc \in {"idle", "reported"}
    /\ net_pc' = "sleeping"
    /\ net_first' = totals
    /\ net_second' = NoSnapshot
    /\ net_stats' = NoStats
    /\ UNCHANGED net_checks

\* second snapshot and the NetworkStats built from the two
net_report(totals) ==
    /\ net_pc = "sleeping"
    /\ net_second' = totals
    /\ LET din == Sub(totals.in, net_first.in, net_checks)
           dout == Sub(totals.out, net_first.out, net_checks)
       IN  IF din.panic \/ dout.panic
           THEN /\ net_pc' = "panicked"
                /\ net_stats' = NoStats
           ELSE /\ net_pc' = "reported"
                /\ net_stats' = [in |-> to_mb(din.val), out |-> to_mb(dout.val)]
    /\ UNCHANGED <<net_checks, net_first>>

NextNet ==
    \/ \E checks \in BOOLEAN : net_start(checks) /\ UNCHANGED othersOfNet
    \/ \E totals \in Snapshots : net_snapshot(totals) /\ UNCHANGED othersOfNet
    \/ \E totals \in Snapshots : net_report(totals) /\ UNCHANGED othersOfNet

\* the value the probe is to report for one counter
Throughput(first, second) == IF second < first THEN 0 ELSE to_mb(second - first)

\* C33: once both snapshots are taken the probe has returned, and it reports
\* for each direction the difference of the two snapshots in megabytes, or 0
\* when the second snapshot is below the first.
C33_NetworkDeltaNeverWraps ==
    net_second # NoSnapshot =>
        /\ net_pc = "reported"
        /\ net_stats.in = Throughput(net_first.in, net_second.in)
        /\ net_stats.out = Throughput(net_first.out, net_second.out)

\* ========================================================================
\* systemd unit probe and the agent's FastCache
\* (lynx-agent/src/lib/system_info.rs, cache.rs)
\* ========================================================================
Units == {"ssh.service", "cron.service"}

\* chrono::Duration::minutes(10) passed to set_system_service
ServiceTtl == 10
\* SystemctlCollector::interval is 300 s; a tick may come a minute late
UnitClockSteps == {5, 6}

\* active state and main pid a unit may show
UnitStates == {[active |-> "Active", pid |-> 100],
               [active |-> "Active", pid |-> 200],
               [active |-> "Inactive", pid |-> 0]}

\* the cache::SystemService built for a unit; enabled is derived from the
\* active state, pid is an Option
SystemService(name, st) ==
    [name |-> name,
     status |-> st.active,
     enabled |-> st.active = "Active",
     pid |-> IF st.pid = 0 THEN <<>> ELSE <<st.pid>>]

NoEntry == [name |-> "", status |-> "", enabled |-> FALSE, pid |-> <<>>]
NoMeta == 0 - 1

\* format!("service:{}", name)
ServiceKey(name) == <<"service:", name>>
ServiceKeys == {ServiceKey(u) : u \in Units}

\* FastCache::delete: the entry leaves both maps before the store is written
FastCache_delete(mem, meta, key, db_ok) ==
    [ok |-> db_ok,
     val |-> mem[key] # NoEntry,
     memory |-> [mem EXCEPT ![key] = NoEntry],
     metadata |-> [meta EXCEPT ![key] = NoMeta]]

\* FastCache::get: Ok(<<value>>), Ok(<<>>) or Err, and the maps afterwards
FastCache_get(mem, meta, key, t, db_ok) ==
    IF meta[key] # NoMeta /\ meta[key] < t
    THEN LET del == FastCache_delete(mem, meta, key, db_ok)
         IN  [ok |-> del.ok, val |-> <<>>, memory |-> del.memory, metadata |-> del.metadata]
    ELSE [ok |-> TRUE,
          val |-> IF mem[key] # NoEntry THEN <<mem[key]>> ELSE <<>>,
          memory |-> mem, metadata |-> meta]

\* FastCache::set with a ttl: both maps are written before the store
FastCache_set(mem, meta, key, value, ttl, t, db_ok) ==
    [ok |-> db_ok,
     memory |-> [mem EXCEPT ![key] = value],
     metadata |-> [meta EXCEPT ![key] = t + ttl]]

\* cached.is_none() || cached.as_ref() != Some(&service)
ServiceChanged_OnlyAbsent(cached, service) == cached = <<>>
ServiceChanged(cached, service) == cached = <<>> \/ cached # <<service>>

\* one iteration of the loop over the listed units
CollectUnit(acc, name, t, get_ok, set_ok) ==
    LET service == SystemService(name, unit_state[name])
        got == FastCache_get(acc.memory, acc.metadata, ServiceKey(name), t, get_ok)
        cached == IF got.ok THEN got.val ELSE <<>>
        expired == acc.metadata[ServiceKey(name)] # NoMeta
                       /\ acc.metadata[ServiceKey(name)] < t
    IN  IF ServiceChanged(cached, service)
        THEN LET put == FastCache_set(got.memory, got.metadata, ServiceKey(name),
                                      service, ServiceTtl, t, set_ok)
             IN  [memory |-> put.memory, metadata |-> put.metadata,
                  changed |-> acc.changed \cup {name},
                  cause |-> [acc.cause EXCEPT ![name] =
                                IF expired THEN "expired"
                                ELSE IF got.val = <<>> THEN "absent" ELSE "differs"]]
        ELSE [memory |-> got.memory, metadata |-> got.metadata,
              changed |-> acc.changed, cause |-> acc.cause]

RECURSIVE CollectUnits(_, _, _, _, _)
CollectUnits(acc, todo, t, get_ok, set_ok) ==
    IF todo = {} THEN acc
    ELSE LET name == CHOOSE u \in todo : TRUE
         IN  CollectUnits(CollectUnit(acc, name, t, get_ok, set_ok),
                          todo \ {name}, t, get_ok, set_ok)

InitUnits ==
    /\ unit_now = 0
    /\ unit_state = [u \in Units |-> [active |-> "Inactive", pid |-> 0]]
    /\ memory_cache = [k \in ServiceKeys |-> NoEntry]
    /\ metadata_cache = [k \in ServiceKeys |-> NoMeta]
    /\ unit_delta = {}
    /\ unit_cause = [u \in Units |-> "none"]
    /\ unit_seen = {}

\* a unit starts, stops or is restarted
unit_change(name, st) ==
    /\ unit_state[name] # st
    /\ unit_state' = [unit_state EXCEPT ![name] = st]
    /\ unit_seen' = {}
    /\ unit_delta' = {}
    /\ unit_cause' = [u \in Units |-> "none"]
    /\ UNCHANGED <<unit_now, memory_cache, metadata_cache>>

\* time passes until a later tick of the collector
unit_wait(d) ==
    /\ unit_now + d <= MaxClock
    /\ unit_now' = unit_now + d
    /\ unit_seen' = {}
    /\ unit_delta' = {}
    /\ unit_cause' = [u \in Units |-> "none"]
    /\ UNCHANGED <<unit_state, memory_cache, metadata_cache>>

\* collect_systemctl_services: list_units_full returns listed, or fails;
\* the store of the write-through cache answers get_ok / set_ok
collect_systemctl_services(list_ok, listed, get_ok, set_ok) ==
    /\ LET start == [memory |-> memory_cache, metadata |-> metadata_cache,
                     changed |-> {}, cause |-> [u \in Units |-> "none"]]
           done == IF list_ok
                   THEN CollectUnits(start, listed, unit_now, get_ok, set_ok)
                   ELSE start
       IN  /\ memory_cache' = done.memory
           /\ metadata_cache' = done.metadata
           /\ unit_delta' = done.changed
           /\ unit_cause' = done.cause
    /\ unit_seen' = IF list_ok THEN listed ELSE {}
    /\ UNCHANGED <<unit_now, unit_state>>

NextUnits ==
    \/ \E name \in Units, st \in UnitStates :
           unit_change(name, st) /\ UNCHANGED othersOfUnit
    \/ \E d \in UnitClockSteps : unit_wait(d) /\ UNCHANGED othersOfUnit
    \/ \E list_ok, get_ok, set_ok \in BOOLEAN, listed \in SUBSET Units :
           collect_systemctl_services(list_ok, listed, get_ok, set_ok)
               /\ UNCHANGED othersOfUnit

\* the cache holds an entry for the unit that has not expired
HoldsUnexpired(name) ==
    /\ memory_cache[ServiceKey(name)] # NoEntry
    /\ ~(metadata_cache[ServiceKey(name)] # NoMeta
            /\ metadata_cache[ServiceKey(name)] < unit_now)

\* some call of collect_systemctl_services over the units in seen
Collects(seen) ==
    \E list_ok, get_ok, set_ok \in BOOLEAN, listed \in SUBSET Units :
        /\ seen = (IF list_ok THEN listed ELSE {})
        /\ collect_systemctl_services(list_ok, listed, get_ok, set_ok)

HubCalls == {1, 2}              \* handler calls that may be in progress together
Rpcs == {"report_metrics", "get_system_info", "report_systemctl"}

\* the x-agent-key metadata of a request: absent, not visible ASCII (to_str
\* fails), or a key
NoHeader == "missing"
BadHeader == "malformed"
Headers == {NoHeader, BadHeader, "k1", "k2", "kx"}

\* the systems table: key k1 is an active system, k2 an inactive one, kx unknown
SystemRows == { [key |-> "k1", id |-> 1, active |-> TRUE],
                [key |-> "k2", id |-> 2, active |-> FALSE] }
SystemIdsOfStore == {r.id : r \in SystemRows}

\* SELECT id, cpu, hostname FROM systems WHERE key = $1 AND active = true
SelectSystem_AnyKey(key) ==
    IF \E r \in SystemRows : r.key = key
    THEN (CHOOSE r \in SystemRows : r.key = key).id
    ELSE 0

SelectSystem(key) ==
    IF \E r \in SystemRows : r.key = key /\ r.active
    THEN (CHOOSE r \in SystemRows : r.key = key /\ r.active).id
    ELSE 0

\* request bodies
MetricsPayloads == [complete : BOOLEAN, disks : 0..MaxDisks]
SystemInfoPayloads == {"hostA", "hostB"}
SystemctlPayloads ==
    { <<>> } \cup { <<svc>> : svc \in {x \in SystemServices : x.service_name = "svc0"} }
        \cup { <<a, b>> : a \in {x \in SystemServices : x.pid = 1},
                          b \in {x \in SystemServices : x.service_name = "svc1"} }
PayloadsOf(rpc) ==
    CASE rpc = "report_metrics" -> MetricsPayloads
      [] rpc = "get_system_info" -> SystemInfoPayloads
      [] OTHER -> SystemctlPayloads

NoHubRequest == [rpc |-> None, header |-> NoHeader, payload |-> None]
NoRows == [metric |-> 0, disks |-> 0, failed |-> 0]

\* report_metrics has no row left to insert: the for loop over the disk
\* queries has run through all `left` of them
DisksDone_Always(left) == TRUE

DisksDone(left) == left = 0

\* SELECT id FROM services WHERE system = $1 AND name = $2 (fetch_optional)
ExistingService(system, name) ==
    LET rows == {r \in services_table : r.system = system /\ r.svc.service_name = name}
    IN IF rows = {} THEN 0
       ELSE (CHOOSE r \in rows : \A o \in rows : r.id <= o.id).id

NextServiceId ==
    IF services_table = {} THEN 1
    ELSE (CHOOSE r \in services_table : \A o \in services_table : r.id >= o.id).id + 1

InitHub ==
    /\ hub_pc = [h \in HubCalls |-> "idle"]
    /\ hub_request = [h \in HubCalls |-> NoHubRequest]
    /\ hub_valid = [h \in HubCalls |-> None]
    /\ hub_response = [h \in HubCalls |-> None]
    /\ hub_left = [h \in HubCalls |-> 0]
    /\ hub_existing = [h \in HubCalls |-> 0]
    /\ hub_rows = [h \in HubCalls |-> NoRows]
    /\ hub_calls = 0
    /\ metrics_table = 0
    /\ disks_table = 0
    /\ systems_info = [i \in SystemIdsOfStore |-> None]
    /\ services_table = {}
    /\ alert_spawned = 0
    /\ log_tasks = 0

\* the handler returns status to the caller
Respond(h, status) ==
    /\ hub_response' = [hub_response EXCEPT ![h] = status]
    /\ hub_pc' = [hub_pc EXCEPT ![h] = "idle"]

\* a request arrives at one of the three entry points
hub_receive(h, rpc, header, payload) ==
    /\ hub_pc[h] = "idle"
    /\ hub_calls < MaxHubCalls
    /\ hub_calls' = hub_calls + 1
    /\ hub_request' = [hub_request EXCEPT ![h] =
                          [rpc |-> rpc, header |-> header, payload |-> payload]]
    /\ hub_pc' = [hub_pc EXCEPT ![h] = "auth"]
    /\ hub_valid' = [hub_valid EXCEPT ![h] = None]
    /\ hub_response' = [hub_response EXCEPT ![h] = None]
    /\ hub_left' = [hub_left EXCEPT ![h] = 0]
    /\ hub_existing' = [hub_existing EXCEPT ![h] = 0]
    /\ hub_rows' = [hub_rows EXCEPT ![h] = NoRows]
    /\ UNCHANGED <<metrics_table, disks_table, systems_info, services_table,
                   alert_spawned, log_tasks, services, logs, log_calls>>

\* the head of every handler: read x-agent-key, look the system up, and on
\* success run on to the handler's first store query
hub_auth(h, db_ok) ==
    /\ hub_pc[h] = "auth"
    /\ LET req == hub_request[h]
           id == SelectSystem(req.header)
       IN
       IF req.header = NoHeader
       THEN /\ Respond(h, "unauthenticated")
            /\ UNCHANGED <<hub_valid, hub_left, alert_spawned>>
       ELSE IF req.header = BadHeader
       THEN /\ Respond(h, "invalid_argument")
            /\ UNCHANGED <<hub_valid, hub_left, alert_spawned>>
       ELSE IF ~db_ok
       THEN /\ Respond(h, "internal")
            /\ hub_valid' = [hub_valid EXCEPT ![h] = "Err"]
            /\ UNCHANGED <<hub_left, alert_spawned>>
       ELSE IF id = 0
       THEN /\ Respond(h, "unauthenticated")
            /\ hub_valid' = [hub_valid EXCEPT ![h] = "NoRow"]
            /\ UNCHANGED <<hub_left, alert_spawned>>
       ELSE /\ hub_valid' = [hub_valid EXCEPT ![h] = id]
            /\ CASE req.rpc = "report_metrics" ->
                      \* tokio::spawn(process_notification), then the unwraps
                      /\ alert_spawned' = alert_spawned + 1
                      /\ hub_left' = [hub_left EXCEPT ![h] = req.payload.disks]
                      /\ IF req.payload.complete
                         THEN /\ hub_pc' = [hub_pc EXCEPT ![h] = "insert_metric"]
                              /\ UNCHANGED hub_response
                         ELSE Respond(h, "panic")
                 [] req.rpc = "get_system_info" ->
                      /\ hub_pc' = [hub_pc EXCEPT ![h] = "update_system"]
                      /\ UNCHANGED <<hub_response, hub_left, alert_spawned>>
                 [] OTHER ->
                      /\ hub_left' = [hub_left EXCEPT ![h] = Len(req.payload)]
                      /\ IF Len(req.payload) = 0
                         THEN Respond(h, "200")
                         ELSE /\ hub_pc' = [hub_pc EXCEPT ![h] = "select_service"]
                              /\ UNCHANGED hub_response
                      /\ UNCHANGED alert_spawned
    /\ UNCHANGED <<hub_request, hub_existing, hub_rows, hub_calls, metrics_table, disks_table,
                   systems_info, services_table, log_tasks, services, logs, log_calls>>

\* the response of report_metrics once every row is stored: spawn
\* cache.record_log and answer "200"
MetricsStored(h) ==
    /\ log_tasks' = log_tasks + 1
    /\ Respond(h, "200")

\* report_metrics: INSERT INTO metrics
hub_insert_metric(h, db_ok) ==
    /\ hub_pc[h] = "insert_metric"
    /\ IF ~db_ok
       THEN /\ Respond(h, "internal")
            /\ hub_rows' = [hub_rows EXCEPT ![h].failed = @ + 1]
            /\ UNCHANGED <<metrics_table, log_tasks>>
       ELSE /\ metrics_table' = metrics_table + 1
            /\ hub_rows' = [hub_rows EXCEPT ![h].metric = @ + 1]
            /\ IF DisksDone(hub_left[h])
               THEN /\ MetricsStored(h)
               ELSE /\ hub_pc' = [hub_pc EXCEPT ![h] = "insert_disk"]
                    /\ UNCHANGED <<hub_response, log_tasks>>
    /\ UNCHANGED <<hub_request, hub_valid, hub_left, hub_existing, hub_calls, disks_table,
                   systems_info, services_table, alert_spawned, services, logs, log_calls>>

\* report_metrics: INSERT INTO disks for the next disk of the request
hub_insert_disk(h, db_ok) ==
    /\ hub_pc[h] = "insert_disk"
    /\ IF ~db_ok
       THEN /\ Respond(h, "internal")
            /\ hub_rows' = [hub_rows EXCEPT ![h].failed = @ + 1]
            /\ UNCHANGED <<disks_table, hub_left, log_tasks>>
       ELSE /\ disks_table' = disks_table + 1
            /\ hub_rows' = [hub_rows EXCEPT ![h].disks = @ + 1]
            /\ hub_left' = [hub_left EXCEPT ![h] = @ - 1]
            /\ IF DisksDone(hub_left[h] - 1)
               THEN /\ MetricsStored(h)
               ELSE UNCHANGED <<hub_pc, hub_response, log_tasks>>
    /\ UNCHANGED <<hub_request, hub_valid, hub_existing, hub_calls, metrics_table,
                   systems_info, services_table, alert_spawned, services, logs, log_calls>>

\* the spawned task: cache.record_log("info", "metrics inserted")
hub_record_log ==
    /\ log_tasks > 0
    /\ log_tasks' = log_tasks - 1
    /\ logs' = DrainOverflow(Append(logs, [level |-> "info",
                                           message |-> "metrics inserted",
                                           ts |-> log_calls]),
                             max_logs)
    /\ log_calls' = log_calls + 1
    /\ UNCHANGED <<hub_pc, hub_request, hub_valid, hub_response, hub_left,
                   hub_existing, hub_rows, hub_calls, metrics_table, disks_table, systems_info,
                   services_table, alert_spawned, services>>

\* get_system_info: UPDATE systems ... WHERE id = system.id
hub_update_system(h, db_ok) ==
    /\ hub_pc[h] = "update_system"
    /\ IF ~db_ok
       THEN /\ Respond(h, "internal")
            /\ UNCHANGED systems_info
       ELSE /\ systems_info' = [systems_info EXCEPT ![hub_valid[h]] = hub_request[h].payload]
            /\ Respond(h, "200")
    /\ UNCHANGED <<hub_request, hub_valid, hub_left, hub_existing, hub_rows, hub_calls,
                   metrics_table, disks_table, services_table, alert_spawned,
                   log_tasks, services, logs, log_calls>>

\* the service of the request the loop of report_systemctl is at
CurrentService(h) ==
    hub_request[h].payload[Len(hub_request[h].payload) - hub_left[h] + 1]

\* report_systemctl, per service: cache.upsert_service, then the SELECT
hub_select_service(h, db_ok) ==
    /\ hub_pc[h] = "select_service"
    /\ LET svc == CurrentService(h) IN
       /\ services' = [services EXCEPT ![svc.service_name] = svc]
       /\ IF ~db_ok
          THEN /\ Respond(h, "internal")
               /\ UNCHANGED hub_existing
          ELSE /\ hub_existing' = [hub_existing EXCEPT ![h] =
                                      ExistingService(hub_valid[h], svc.service_name)]
               /\ hub_pc' = [hub_pc EXCEPT ![h] = "write_service"]
               /\ UNCHANGED hub_response
    /\ UNCHANGED <<hub_request, hub_valid, hub_left, hub_rows, hub_calls, metrics_table,
                   disks_table, systems_info, services_table, alert_spawned,
                   log_tasks, logs, log_calls>>

\* report_systemctl, per service: UPDATE the row found, or INSERT a new one
hub_write_service(h, db_ok) ==
    /\ hub_pc[h] = "write_service"
    /\ LET svc == CurrentService(h) IN
       IF ~db_ok
       THEN /\ Respond(h, "internal")
            /\ UNCHANGED <<services_table, hub_left>>
       ELSE /\ IF hub_existing[h] # 0
               THEN /\ services_table' =
                          {IF r.id = hub_existing[h]
                           THEN [r EXCEPT !.svc = [svc EXCEPT !.service_name = r.svc.service_name]]
                           ELSE r : r \in services_table}
               ELSE /\ services_table' = services_table \cup
                          {[id |-> NextServiceId, system |-> hub_valid[h], svc |-> svc]}
            /\ hub_left' = [hub_left EXCEPT ![h] = @ - 1]
            /\ IF hub_left[h] = 1
               THEN Respond(h, "200")
               ELSE /\ hub_pc' = [hub_pc EXCEPT ![h] = "select_service"]
                    /\ UNCHANGED hub_response
    /\ UNCHANGED <<hub_request, hub_valid, hub_existing, hub_rows, hub_calls, metrics_table,
                   disks_table, systems_info, alert_spawned, log_tasks, services,
                   logs, log_calls>>

NextHub ==
    \/ /\ \E h \in HubCalls, rpc \in Rpcs, header \in Headers :
             \E payload \in PayloadsOf(rpc) : hub_receive(h, rpc, header, payload)
       /\ UNCHANGED othersOfHub
    \/ /\ \E h \in HubCalls, db_ok \in BOOLEAN : hub_auth(h, db_ok)
       /\ UNCHANGED othersOfHub
    \/ /\ \E h \in HubCalls, db_ok \in BOOLEAN : hub_insert_metric(h, db_ok)
       /\ UNCHANGED othersOfHub
    \/ /\ \E h \in HubCalls, db_ok \in BOOLEAN : hub_insert_disk(h, db_ok)
       /\ UNCHANGED othersOfHub
    \/ /\ hub_record_log
       /\ UNCHANGED othersOfHub
    \/ /\ \E h \in HubCalls, db_ok \in BOOLEAN : hub_update_system(h, db_ok)
       /\ UNCHANGED othersOfHub
    \/ /\ \E h \in HubCalls, db_ok \in BOOLEAN : hub_select_service(h, db_ok)
       /\ UNCHANGED othersOfHub
    \/ /\ \E h \in HubCalls, db_ok \in BOOLEAN : hub_write_service(h, db_ok)
       /\ UNCHANGED othersOfHub


\* ------------------------------------------------------------------------
\* Properties of the hub
\* ------------------------------------------------------------------------
\* the x-agent-key of call h is the key of an active system
ResolvesToActiveSystem(h) ==
    \E r \in SystemRows : r.key = hub_request[h].header /\ r.active

C21_RespondsAfterAllRows ==
    \A h \in HubCalls :
        hub_request[h].rpc = "report_metrics" =>
            /\ hub_response[h] = "200" =>
                  hub_rows[h] = [metric |-> 1, disks |-> hub_request[h].payload.disks,
                                 failed |-> 0]
            /\ hub_rows[h].failed >= 1 =>
                  /\ hub_rows[h].failed = 1
                  /\ hub_response[h] = "internal"
                  /\ hub_pc[h] = "idle"
            /\ hub_rows[h].metric <= 1
            /\ hub_rows[h].disks <= hub_request[h].payload.disks

\* one report_metrics call with a disk has been answered "200" with all its
\* rows stored, another was answered internal after its disk insert failed
C21_Witness ==
    \E h, o \in HubCalls :
        /\ hub_request[h].rpc = "report_metrics"
        /\ hub_request[h].payload.disks >= 1
        /\ hub_response[h] = "200"
        /\ hub_rows[h].disks = hub_request[h].payload.disks
        /\ hub_request[o].rpc = "report_metrics"
        /\ hub_response[o] = "internal"
        /\ hub_rows[o] = [metric |-> 1, disks |-> 0, failed |-> 1]

\* C26: report_metrics never panics on a client-supplied payload: a request
\* that lacks cpu_stats, memory_stats, network_stats or load_average is
\* answered with a status, the handler is not aborted.
C26_MetricsNeverPanics ==
    \A h \in HubCalls :
        hub_request[h].rpc = "report_metrics" => hub_response[h] # "panic"

\* C28: after any interleaving of report_systemctl calls the store holds at
\* most one services row per (system, name), carrying the values of one of
\* the reports.
C28_OneRowPerSystemName ==
    \A r1, r2 \in services_table :
        r1.system = r2.system /\ r1.svc.service_name = r2.svc.service_name => r1 = r2

\* C37: in the step in which report_systemctl returns, with success or with
\* the internal error, every service of the request that the ServiceCache
\* then holds with the request's values is in a services row of the
\* request's system with those values.
C37_CacheMirrorsStore ==
    [][\A h \in HubCalls :
          (/\ hub_pc[h] \in {"select_service", "write_service"}
           /\ hub_pc'[h] = "idle") =>
              \A i \in 1..Len(hub_request[h].payload) :
                  LET svc == hub_request[h].payload[i] IN
                  services'[svc.service_name] = svc =>
                      \E r \in services_table' : r.system = hub_valid[h] /\ r.svc = svc]_vars


\* ========================================================================
\* Command relay (lynx-agent/src/lib/websocket.rs)
\* ========================================================================
Addrs == 1..MaxConns
Pids == 1..MaxProcs
LiveIds == 1..MaxLive
\* a Stop task: the addr whose tx it holds, its clone of the registry (procs),
\* the ids it still has to visit (todo), the id whose child lock it waits for
\* (cur), and the live tasks that were running when it started (live_seen)
NoStop == [active |-> FALSE, addr |-> 0, procs |-> {}, todo |-> {}, cur |-> 0,
           live_seen |-> {}]

Frame(kind, id, n) == [kind |-> kind, id |-> id, n |-> n]

\* tx.try_send(frame) of a sender of connection addr: the frame is queued when
\* that connection is still served and its channel has a free slot
TrySendOk(addr) == addr = conn /\ Len(outq) < OutCap
TrySend(q, addr, frame) ==
    IF addr = conn /\ Len(q) < OutCap THEN Append(q, frame) ELSE q

\* ids not used yet
FreshPid == CHOOSE i \in Pids : child[i] = "none" /\ \A j \in Pids : child[j] = "none" => i <= j
FreshLive == CHOOSE i \in LiveIds : live[i] = "none" /\ \A j \in LiveIds : live[j] = "none" => i <= j
RunningLive == {t \in LiveIds : live[t] = "running"}

\* child.kill(): a running subprocess is killed; one that has already exited
\* or been killed stays as it is
KillChild_Respawn(state) == IF state = "running" THEN "killed" ELSE "running"

KillChild(state) == IF state = "running" THEN "killed" ELSE state

\* the model's budget of relay steps
RelayOp ==
    /\ relay_ops < MaxRelayOps
    /\ relay_ops' = relay_ops + 1

InitRelay ==
    /\ server_up = TRUE
    /\ conn = 0
    /\ accepted = 0
    /\ peers = {}
    /\ outq = <<>>
    /\ child = [i \in Pids |-> "none"]
    /\ owner = [i \in Pids |-> 0]
    /\ stream = [i \in Pids |-> "none"]
    /\ permit = [i \in Pids |-> FALSE]
    /\ lines = [i \in Pids |-> 0]
    /\ RUNNING_PROCESSES = {}
    /\ live = [t \in LiveIds |-> "none"]
    /\ live_owner = [t \in LiveIds |-> 0]
    /\ live_permit = [t \in LiveIds |-> FALSE]
    /\ LIVE_METRICS = [a \in Addrs |-> 0]
    /\ stop_queue = <<>>
    /\ stop_task = NoStop
    /\ cleanups = {}
    /\ relay_ops = 0

\* listener.accept() and accept_async: the loop serves one connection at a
\* time; a failed handshake panics the accept task (expect)
ws_accept(handshake_ok) ==
    /\ RelayOp
    /\ server_up
    /\ conn = 0
    /\ accepted < MaxConns
    /\ accepted' = accepted + 1
    /\ IF handshake_ok
       THEN /\ conn' = accepted + 1
            /\ peers' = peers \cup {accepted + 1}
            /\ UNCHANGED server_up
       ELSE /\ server_up' = FALSE
            /\ UNCHANGED <<conn, peers>>
    /\ outq' = <<>>
    /\ UNCHANGED <<child, owner, stream, permit, lines,
                   RUNNING_PROCESSES, live, live_owner, live_permit, LIVE_METRICS,
                   stop_queue, stop_task, cleanups>>

\* a client frame that parses to a command: the handler spawns the command's
\* task (execute, stop, live, a service command) or does nothing (update, delete)
ws_frame(type) ==
    /\ RelayOp
    /\ conn # 0
    /\ CASE type = "execute" ->
              /\ \E i \in Pids : child[i] = "none"
              /\ child' = [child EXCEPT ![FreshPid] = "requested"]
              /\ owner' = [owner EXCEPT ![FreshPid] = conn]
              /\ UNCHANGED <<live, live_owner, stop_queue, outq>>
         [] type = "live" ->
              /\ \E t \in LiveIds : live[t] = "none"
              /\ live' = [live EXCEPT ![FreshLive] = "requested"]
              /\ live_owner' = [live_owner EXCEPT ![FreshLive] = conn]
              /\ UNCHANGED <<child, owner, stop_queue, outq>>
         [] type = "stop" ->
              /\ Len(stop_queue) < MaxStops
              /\ stop_queue' = Append(stop_queue, conn)
              /\ UNCHANGED <<child, owner, live, live_owner, outq>>
         [] type = "startservice" ->
              /\ outq' = TrySend(outq, conn, Frame("service", 0, 0))
              /\ UNCHANGED <<child, owner, live, live_owner, stop_queue>>
         [] OTHER ->
              UNCHANGED <<child, owner, live, live_owner, stop_queue, outq>>
    /\ UNCHANGED <<server_up, conn, accepted, peers, stream, permit, lines,
                   RUNNING_PROCESSES, live_permit, LIVE_METRICS, stop_task, cleanups>>

\* what ends a connection: a frame of type EOF, a frame that is not valid JSON
\* or has an unknown type (the EOF / Err arm), the client closing the stream,
\* or a failed write of outgoing_messages
CloseCauses == {"EOF", "invalid_json", "unknown_type", "client_closed", "send_failed"}

\* peers.lock().await.remove(&addr)
PeersRemove_Keep(p, addr) == p

PeersRemove(p, addr) == p \ {addr}

\* the connection ends: the select! returns, the peer is removed and the
\* cleanup task spawned; no command is run for the frame that ended it
ws_disconnect(cause) ==
    /\ RelayOp
    /\ conn # 0
    /\ cause \in CloseCauses
    /\ peers' = PeersRemove(peers, conn)
    /\ cleanups' = cleanups \cup {conn}
    /\ conn' = 0
    /\ outq' = <<>>
    /\ UNCHANGED <<server_up, accepted, child, owner, stream, permit,
                   lines, RUNNING_PROCESSES, live, live_owner, live_permit,
                   LIVE_METRICS, stop_queue, stop_task>>

\* the disconnect cleanup task: LIVE_METRICS.remove(&addr) and notify_one
ws_cleanup(addr) ==
    /\ RelayOp
    /\ addr \in cleanups
    /\ cleanups' = cleanups \ {addr}
    /\ IF LIVE_METRICS[addr] # 0
       THEN /\ live_permit' = [live_permit EXCEPT ![LIVE_METRICS[addr]] = TRUE]
            /\ LIVE_METRICS' = [LIVE_METRICS EXCEPT ![addr] = 0]
       ELSE UNCHANGED <<live_permit, LIVE_METRICS>>
    /\ UNCHANGED <<server_up, conn, accepted, peers, outq, child,
                   owner, stream, permit, lines, RUNNING_PROCESSES, live, live_owner,
                   stop_queue, stop_task>>

\* outgoing_messages: rx.recv() and outgoing.send(msg)
ws_forward ==
    /\ RelayOp
    /\ conn # 0
    /\ outq # <<>>
    /\ outq' = Tail(outq)
    /\ UNCHANGED <<server_up, conn, accepted, peers, child, owner, stream,
                   permit, lines, RUNNING_PROCESSES, live, live_owner, live_permit,
                   LIVE_METRICS, stop_queue, stop_task, cleanups>>

\* the task spawned for execute: start_command, then the "Started command" frame
start_command(pid, spawned) ==
    /\ RelayOp
    /\ child[pid] = "requested"
    /\ ~stop_task.active
    /\ IF spawned
       THEN /\ child' = [child EXCEPT ![pid] = "running"]
            /\ RUNNING_PROCESSES' = RUNNING_PROCESSES \cup {pid}
            /\ stream' = [stream EXCEPT ![pid] = "running"]
            /\ outq' = TrySend(outq, owner[pid], Frame("started", pid, 0))
       ELSE /\ child' = [child EXCEPT ![pid] = "failed"]
            /\ outq' = TrySend(outq, owner[pid], Frame("spawn_error", pid, 0))
            /\ UNCHANGED <<RUNNING_PROCESSES, stream>>
    /\ UNCHANGED <<server_up, conn, accepted, peers, owner, permit,
                   lines, live, live_owner, live_permit, LIVE_METRICS, stop_queue,
                   stop_task, cleanups>>

\* the task spawned for live: start_metrics_command, then the "Started live
\* metrics" frame; the entry of the addr is replaced
start_metrics_command(t) ==
    /\ RelayOp
    /\ live[t] = "requested"
    /\ live' = [live EXCEPT ![t] = "running"]
    /\ LIVE_METRICS' = [LIVE_METRICS EXCEPT ![live_owner[t]] = t]
    /\ outq' = TrySend(outq, live_owner[t], Frame("live_started", t, 0))
    /\ UNCHANGED <<server_up, conn, accepted, peers, child, owner,
                   stream, permit, lines, RUNNING_PROCESSES, live_owner, live_permit,
                   stop_queue, stop_task, cleanups>>

\* the subprocess exits on its own
child_exit(pid) ==
    /\ RelayOp
    /\ child[pid] = "running"
    /\ child' = [child EXCEPT ![pid] = "exited"]
    /\ UNCHANGED <<server_up, conn, accepted, peers, outq, owner,
                   stream, permit, lines, RUNNING_PROCESSES, live, live_owner,
                   live_permit, LIVE_METRICS, stop_queue, stop_task, cleanups>>

\* stream_output: a line of stdout; a failed try_send ends the task
stream_line(pid) ==
    /\ RelayOp
    /\ stream[pid] = "running"
    /\ child[pid] = "running"
    /\ lines[pid] < MaxLines
    /\ lines' = [lines EXCEPT ![pid] = @ + 1]
    /\ IF TrySendOk(owner[pid])
       THEN /\ outq' = Append(outq, Frame("output", pid, lines[pid] + 1))
            /\ UNCHANGED stream
       ELSE /\ stream' = [stream EXCEPT ![pid] = "ended"]
            /\ UNCHANGED outq
    /\ UNCHANGED <<server_up, conn, accepted, peers, child, owner,
                   permit, RUNNING_PROCESSES, live, live_owner, live_permit,
                   LIVE_METRICS, stop_queue, stop_task, cleanups>>

\* stream_output: try_wait finds the subprocess exited; EOF is sent
stream_exit(pid) ==
    /\ RelayOp
    /\ stream[pid] = "running"
    /\ child[pid] \in {"exited", "killed"}
    /\ outq' = TrySend(outq, owner[pid], Frame("EOF", pid, 0))
    /\ stream' = [stream EXCEPT ![pid] = "ended"]
    /\ UNCHANGED <<server_up, conn, accepted, peers, child, owner,
                   permit, lines, RUNNING_PROCESSES, live, live_owner, live_permit,
                   LIVE_METRICS, stop_queue, stop_task, cleanups>>

\* stream_output: terminate_signal.notified(); the subprocess is killed
stream_terminate(pid) ==
    /\ RelayOp
    /\ stream[pid] = "running"
    /\ permit[pid]
    /\ permit' = [permit EXCEPT ![pid] = FALSE]
    /\ child' = [child EXCEPT ![pid] = KillChild(@)]
    /\ stream' = [stream EXCEPT ![pid] = "ended"]
    /\ UNCHANGED <<server_up, conn, accepted, peers, outq, owner,
                   lines, RUNNING_PROCESSES, live, live_owner, live_permit,
                   LIVE_METRICS, stop_queue, stop_task, cleanups>>

\* the live-metric task: one round of collect_metrics and try_send
live_tick(t) ==
    /\ RelayOp
    /\ live[t] = "running"
    /\ TrySendOk(live_owner[t])
    /\ outq' = Append(outq, Frame("metrics", t, 0))
    /\ UNCHANGED <<server_up, conn, accepted, peers, child, owner,
                   stream, permit, lines, RUNNING_PROCESSES, live, live_owner,
                   live_permit, LIVE_METRICS, stop_queue, stop_task, cleanups>>

\* the live-metric task: terminate_signal.notified(); the loop ends, EOF is sent
live_terminate(t) ==
    /\ RelayOp
    /\ live[t] = "running"
    /\ live_permit[t]
    /\ live_permit' = [live_permit EXCEPT ![t] = FALSE]
    /\ live' = [live EXCEPT ![t] = "stopped"]
    /\ outq' = TrySend(outq, live_owner[t], Frame("EOF", 0, t))
    /\ UNCHANGED <<server_up, conn, accepted, peers, child, owner,
                   stream, permit, lines, RUNNING_PROCESSES, live_owner, LIVE_METRICS,
                   stop_queue, stop_task, cleanups>>

\* the Stop task gets RUNNING_PROCESSES.lock() and clones the map
stop_begin ==
    /\ RelayOp
    /\ ~stop_task.active
    /\ stop_queue # <<>>
    /\ stop_task' = [active |-> TRUE, addr |-> Head(stop_queue),
                     procs |-> RUNNING_PROCESSES, todo |-> RUNNING_PROCESSES,
                     cur |-> 0, live_seen |-> RunningLive]
    /\ stop_queue' = Tail(stop_queue)
    /\ UNCHANGED <<server_up, conn, accepted, peers, outq, child,
                   owner, stream, permit, lines, RUNNING_PROCESSES, live, live_owner,
                   live_permit, LIVE_METRICS, cleanups>>

\* the Stop task, per entry: terminate_signal.notify_one(), then it waits for
\* the child lock that stream_output holds
stop_notify(pid) ==
    /\ RelayOp
    /\ stop_task.active
    /\ stop_task.cur = 0
    /\ pid \in stop_task.todo
    /\ permit' = [permit EXCEPT ![pid] = TRUE]
    /\ stop_task' = [stop_task EXCEPT !.cur = pid]
    /\ UNCHANGED <<server_up, conn, accepted, peers, outq, child,
                   owner, stream, lines, RUNNING_PROCESSES, live, live_owner,
                   live_permit, LIVE_METRICS, stop_queue, cleanups>>

\* the Stop task, per entry: child.kill(), the result frame, processes.remove(pid)
stop_kill ==
    /\ RelayOp
    /\ stop_task.active
    /\ stop_task.cur # 0
    /\ stream[stop_task.cur] # "running"
    /\ child' = [child EXCEPT ![stop_task.cur] = KillChild(@)]
    /\ outq' = TrySend(outq, stop_task.addr, Frame("stop_result", stop_task.cur, 0))
    /\ RUNNING_PROCESSES' = RUNNING_PROCESSES \ {stop_task.cur}
    /\ stop_task' = [stop_task EXCEPT !.todo = @ \ {stop_task.cur}, !.cur = 0]
    /\ UNCHANGED <<server_up, conn, accepted, peers, owner, stream,
                   permit, lines, live, live_owner, live_permit, LIVE_METRICS,
                   stop_queue, cleanups>>

\* the Stop task has visited every entry of its clone and releases the lock
stop_end ==
    /\ RelayOp
    /\ stop_task.active
    /\ stop_task.cur = 0
    /\ stop_task.todo = {}
    /\ stop_task' = NoStop
    /\ UNCHANGED <<server_up, conn, accepted, peers, outq, child,
                   owner, stream, permit, lines, RUNNING_PROCESSES, live, live_owner,
                   live_permit, LIVE_METRICS, stop_queue, cleanups>>

ClientFrames == {"execute", "stop", "live", "startservice", "update"}

NextRelay ==
    \/ /\ \E handshake_ok \in BOOLEAN : ws_accept(handshake_ok)
       /\ UNCHANGED othersOfRelay
    \/ /\ \E type \in ClientFrames : ws_frame(type)
       /\ UNCHANGED othersOfRelay
    \/ /\ \E cause \in CloseCauses : ws_disconnect(cause)
       /\ UNCHANGED othersOfRelay
    \/ /\ \E addr \in Addrs : ws_cleanup(addr)
       /\ UNCHANGED othersOfRelay
    \/ /\ ws_forward
       /\ UNCHANGED othersOfRelay
    \/ /\ \E pid \in Pids, spawned \in BOOLEAN : start_command(pid, spawned)
       /\ UNCHANGED othersOfRelay
    \/ /\ \E t \in LiveIds : start_metrics_command(t)
       /\ UNCHANGED othersOfRelay
    \/ /\ \E pid \in Pids : child_exit(pid)
       /\ UNCHANGED othersOfRelay
    \/ /\ \E pid \in Pids : stream_line(pid)
       /\ UNCHANGED othersOfRelay
    \/ /\ \E pid \in Pids : stream_exit(pid)
       /\ UNCHANGED othersOfRelay
    \/ /\ \E pid \in Pids : stream_terminate(pid)
       /\ UNCHANGED othersOfRelay
    \/ /\ \E t \in LiveIds : live_tick(t)
       /\ UNCHANGED othersOfRelay
    \/ /\ \E t \in LiveIds : live_terminate(t)
       /\ UNCHANGED othersOfRelay
    \/ /\ stop_begin
       /\ UNCHANGED othersOfRelay
    \/ /\ \E pid \in Pids : stop_notify(pid)
       /\ UNCHANGED othersOfRelay
    \/ /\ stop_kill
       /\ UNCHANGED othersOfRelay
    \/ /\ stop_end
       /\ UNCHANGED othersOfRelay

\* ------------------------------------------------------------------------
\* Properties of the relay
\* ------------------------------------------------------------------------
\* C10: when a stop frame has been processed, every subprocess that was
\* registered is no longer running and no longer in the registry, and every
\* live-metric task that was running has been signalled to terminate (it has
\* stopped or its notifier holds the notification).
C10_StopSignalsEveryTask ==
    [][(stop_task.active /\ ~stop_task'.active) =>
          /\ \A pid \in stop_task.procs :
                /\ child'[pid] # "running"
                /\ pid \notin RUNNING_PROCESSES'
          /\ \A t \in stop_task.live_seen :
                live'[t] = "stopped" \/ live_permit'[t]]_vars

\* C11: once a connection has disconnected and its cleanup task has run, every
\* task the connection owns has received the termination signal: a subprocess
\* it spawned that is still running, and a live-metric task of it that is still
\* running, has a notification stored in its notifier.
C11_DisconnectSignalsOwnedTasks ==
    \A a \in Addrs :
        (a # conn /\ a \notin cleanups) =>
            /\ \A pid \in Pids :
                  (owner[pid] = a /\ child[pid] = "running") => permit[pid]
            /\ \A t \in LiveIds :
                  (live_owner[t] = a /\ live[t] = "running") => live_permit[t]

\* C12: the stream_output task of a subprocess whose connection is still served
\* ends only when the subprocess has exited and the EOF frame has been queued
\* behind the frames already in the channel (or when the task was signalled to
\* terminate), so every line written is forwarded and EOF follows the output.
C12_OutputThenEOF ==
    [][\A pid \in Pids :
          (stream[pid] = "running" /\ stream'[pid] = "ended"
              /\ owner[pid] = conn /\ ~permit[pid]) =>
                /\ child[pid] = "exited"
                /\ outq' = Append(outq, Frame("EOF", pid, 0))]_vars

\* C13: the subprocess registry holds an id only while that subprocess is
\* running.
C13_RegistryOnlyRunning ==
    \A pid \in RUNNING_PROCESSES : child[pid] = "running"

\* a subprocess or live-metric task that has terminated
Terminated(pid) == child[pid] \in {"exited", "killed"}
LiveTerminated(t) == live[t] = "stopped"

C15_DropOnlyFrameSent ==
    [][/\ Len(outq') <= OutCap
       /\ \A pid \in Pids :
             (stream[pid] = "running" /\ lines'[pid] # lines[pid]
                 /\ owner[pid] = conn /\ Len(outq) = OutCap) =>
                   /\ stream'[pid] = "running"
                   /\ outq' = outq]_vars

\* C23: a client frame that is EOF, is not valid JSON or carries an unknown
\* type (like every other end of a connection) closes that connection and
\* removes its peer without running a command for the frame: in the step that
\* ends the connection no subprocess, live task or Stop task is created and
\* none is signalled, and from then on the peer map has no entry for the addr.
C23_BadFrameClosesConnection ==
    [][/\ (conn # 0 /\ conn' # conn) =>
             /\ conn' = 0
             /\ conn \notin peers'
             /\ conn \in cleanups'
             /\ UNCHANGED <<child, owner, stream, permit, RUNNING_PROCESSES, live,
                            live_owner, live_permit, LIVE_METRICS, stop_queue, stop_task>>
       /\ \A a \in peers' : a = conn']_vars

\* a connection that had started a subprocess and a live stream has ended and
\* a second connection is being served: the peer map holds only the second
C23_Witness ==
    /\ conn = 2
    /\ peers = {2}
    /\ \E pid \in Pids : owner[pid] = 1 /\ child[pid] = "running"
    /\ \E t \in LiveIds : live_owner[t] = 1

\* C38: every running live-metric task that has not been signalled to
\* terminate is the one whose notifier the live-metric registry holds under
\* the task's connection.
C38_LiveTaskRegistered ==
    \A t \in LiveIds :
        (live[t] = "running" /\ ~live_permit[t]) => LIVE_METRICS[live_owner[t]] = t

\* C39: a client's connection attempt can be accepted whenever one arrives:
\* while another connection is open, and after another client's handshake
\* has failed.
C39_AcceptsWhileServing ==
    (accepted >= 1 /\ accepted < MaxConns /\ relay_ops < MaxRelayOps)
        => ENABLED (\E handshake_ok \in BOOLEAN : ws_accept(handshake_ok))

\* ========================================================================
Init ==
    /\ InitCache
    /\ InitEval
    /\ InitAlert
    /\ InitNotify
    /\ InitTls
    /\ InitNet
    /\ InitUnits
    /\ InitAgent
    /\ InitHub
    /\ InitRelay

Next ==
    \/ NextCache \/ NextEval \/ NextAlert \/ NextNotify
    \/ NextTls \/ NextNet \/ NextUnits \/ NextAgent \/ NextHub \/ NextRelay

SpecCache == Init /\ [][NextCache]_vars

SpecEval == Init /\ [][NextEval]_vars

SpecAlert == Init /\ [][NextAlert]_vars

SpecNotify == Init /\ [][NextNotify]_vars

SpecTls == Init /\ [][NextTls]_vars

SpecNet == Init /\ [][NextNet]_vars

SpecUnits == Init /\ [][NextUnits]_vars

SpecAgent == Init /\ [][NextAgent]_vars

SpecHub == Init /\ [][NextHub]_vars

SpecRelay == Init /\ [][NextRelay]_vars

Spec == Init /\ [][Next]_vars

====
